---------------------------- MODULE Spec2Model ----------------------------
(***************************************************************************)
(* Model of the constraint engine of scripts/constraint_engine_v2.py.      *)
(*                                                                         *)
(* The engine computes with Python floats, i.e. IEEE-754 binary64 numbers  *)
(* with round-to-nearest-even.  TLC's integers are 32 bits wide, so a      *)
(* float is modelled here as sign * mantissa * 2^exponent, the mantissa a  *)
(* 53-bit natural number kept as a little-endian sequence of 14-bit limbs. *)
(* Every float operation computes the exact result on such naturals and    *)
(* rounds it once, as the hardware does.  Infinities, NaN, subnormals and  *)
(* the sign of zero are left out: no value of the engine gets near them.   *)
(***************************************************************************)
EXTENDS Integers, Sequences, FiniteSets, TLC

(***************************************************************************)
(* Natural numbers of any size: little-endian limbs, no leading zero limb, *)
(* zero is the empty sequence.                                             *)
(***************************************************************************)
LimbBits == 14

MantBits == 53

Base == 2^LimbBits

Pow2 == [k \in 0..LimbBits |-> 2^k]

Limb(a, i) == IF i <= Len(a) THEN a[i] ELSE 0

RECURSIVE BNorm(_)
BNorm(a) ==
    IF a = <<>> THEN <<>>
    ELSE IF a[Len(a)] = 0 THEN BNorm(SubSeq(a, 1, Len(a) - 1))
    ELSE a

RECURSIVE BFromNat(_)
BFromNat(n) ==
    IF n = 0 THEN <<>> ELSE <<n % Base>> \o BFromNat(n \div Base)

RECURSIVE BAddC(_, _, _, _)
BAddC(a, b, i, c) ==
    IF i > Len(a) /\ i > Len(b)
    THEN IF c = 0 THEN <<>> ELSE <<c>>
    ELSE LET s == Limb(a, i) + Limb(b, i) + c
         IN  <<s % Base>> \o BAddC(a, b, i + 1, s \div Base)

BAdd(a, b) == BAddC(a, b, 1, 0)

\* a - b for a >= b
RECURSIVE BSubC(_, _, _, _)
BSubC(a, b, i, c) ==
    IF i > Len(a) THEN <<>>
    ELSE LET s == a[i] - Limb(b, i) - c
         IN  IF s < 0 THEN <<s + Base>> \o BSubC(a, b, i + 1, 1)
             ELSE <<s>> \o BSubC(a, b, i + 1, 0)

BSub(a, b) == BNorm(BSubC(a, b, 1, 0))

\* -1, 0, 1 as a < b, a = b, a > b
RECURSIVE BCmpAt(_, _, _)
BCmpAt(a, b, i) ==
    IF i = 0 THEN 0
    ELSE IF a[i] < b[i] THEN -1
    ELSE IF a[i] > b[i] THEN 1
    ELSE BCmpAt(a, b, i - 1)

BCmp(a, b) ==
    IF Len(a) < Len(b) THEN -1
    ELSE IF Len(a) > Len(b) THEN 1
    ELSE BCmpAt(a, b, Len(a))

\* a * d for one limb d
RECURSIVE BMulLimbC(_, _, _, _)
BMulLimbC(a, d, i, c) ==
    IF i > Len(a)
    THEN IF c = 0 THEN <<>> ELSE <<c>>
    ELSE LET s == a[i] * d + c
         IN  <<s % Base>> \o BMulLimbC(a, d, i + 1, s \div Base)

BMulLimb(a, d) == IF d = 0 THEN <<>> ELSE BMulLimbC(a, d, 1, 0)

Zeros(n) == [i \in 1..n |-> 0]

BShiftLimbs(a, n) == IF a = <<>> THEN <<>> ELSE Zeros(n) \o a

RECURSIVE BMulFrom(_, _, _)
BMulFrom(a, b, j) ==
    IF j > Len(b) THEN <<>>
    ELSE BAdd(BShiftLimbs(BMulLimb(a, b[j]), j - 1), BMulFrom(a, b, j + 1))

BMul(a, b) == BMulFrom(a, b, 1)

\* a * 2^k
BShl(a, k) == BShiftLimbs(BMulLimb(a, Pow2[k % LimbBits]), k \div LimbBits)

\* floor(a / 2^k)
BShr(a, k) ==
    LET q == k \div LimbBits
        r == k % LimbBits
        n == Len(a) - q
    IN  IF n <= 0 THEN <<>>
        ELSE BNorm([i \in 1..n |->
                 (a[q + i] \div Pow2[r])
                 + (Limb(a, q + i + 1) % Pow2[r]) * Pow2[LimbBits - r]])

\* bit k of a, counted from 0
BBit(a, k) == (Limb(a, (k \div LimbBits) + 1) \div Pow2[k % LimbBits]) % 2

\* a mod 2^k = 0
BLowZero(a, k) ==
    /\ \A i \in 1..(k \div LimbBits) : Limb(a, i) = 0
    /\ Limb(a, (k \div LimbBits) + 1) % Pow2[k % LimbBits] = 0

BitLen(a) ==
    IF a = <<>> THEN 0
    ELSE (Len(a) - 1) * LimbBits
         + (CHOOSE n \in 1..LimbBits :
                Pow2[n - 1] <= a[Len(a)] /\ a[Len(a)] < Pow2[n])

\* the number as an integer, for numbers below 2^31
RECURSIVE BToNat(_)
BToNat(a) == IF a = <<>> THEN 0 ELSE a[1] + Base * BToNat(Tail(a))

(***************************************************************************)
(* Floats.  A nonzero float is [sg, ex, mt] with sg in {-1, 1} and mt of   *)
(* exactly MantBits bits; its value is sg * mt * 2^ex.                     *)
(***************************************************************************)
FZero == [sg |-> 0, ex |-> 0, mt |-> <<>>]

\* the carry of a rounding up may give one bit too many
RoundCarry(sg, e, q) ==
    IF BitLen(q) > MantBits
    THEN [sg |-> sg, ex |-> e + 1, mt |-> BShr(q, 1)]
    ELSE [sg |-> sg, ex |-> e, mt |-> q]

\* q the kept bits, half the first bit dropped, rest whether any bit
\* below it is set: to nearest, ties to even
RoundNearest(sg, e, q, half, rest) ==
    RoundCarry(sg, e,
               IF half /\ (rest \/ q[1] % 2 = 1) THEN BAdd(q, <<1>>) ELSE q)

RoundShift(sg, M, e, sticky, sh) ==
    IF sh <= 0
    THEN [sg |-> sg, ex |-> e + sh, mt |-> BShl(M, 0 - sh)]
    ELSE RoundNearest(sg, e + sh, BShr(M, sh), BBit(M, sh - 1) = 1,
                      sticky \/ ~BLowZero(M, sh - 1))

\* sg * (M + f) * 2^e rounded to a float; M > 0 and 0 <= f < 1, with
\* sticky telling whether f > 0
Round(sg, M, e, sticky) == RoundShift(sg, M, e, sticky, BitLen(M) - MantBits)

\* float(n) for a Python int n
FromInt(n) ==
    IF n = 0 THEN FZero
    ELSE IF n < 0 THEN Round(-1, BFromNat(0 - n), 0, FALSE)
    ELSE Round(1, BFromNat(n), 0, FALSE)

FNeg(a) == [a EXCEPT !.sg = 0 - a.sg]

FAbs(a) == [a EXCEPT !.sg = IF a.sg = 0 THEN 0 ELSE 1]

\* -1, 0, 1 as a < b, a = b, a > b
FCmp(a, b) ==
    IF a.sg # b.sg THEN (IF a.sg < b.sg THEN -1 ELSE 1)
    ELSE IF a.sg = 0 THEN 0
    ELSE IF a.ex # b.ex THEN (IF a.ex < b.ex THEN 0 - a.sg ELSE a.sg)
    ELSE a.sg * BCmp(a.mt, b.mt)

FLt(a, b) == FCmp(a, b) < 0

FLe(a, b) == FCmp(a, b) <= 0

FGt(a, b) == FCmp(a, b) > 0

FGe(a, b) == FCmp(a, b) >= 0

FMul(a, b) ==
    IF a.sg = 0 \/ b.sg = 0 THEN FZero
    ELSE Round(a.sg * b.sg, BMul(a.mt, b.mt), a.ex + b.ex, FALSE)

\* beyond this difference of exponents the smaller operand is below the
\* rounding of the larger
FarApart == MantBits + 7

\* sa * Ma + sb * Mb, in units of 2^e, with c comparing Ma to Mb
AddAligned(sa, Ma, sb, Mb, e, c) ==
    IF sa # sb /\ c = 0 THEN FZero
    ELSE Round(IF sa = sb \/ c > 0 THEN sa ELSE sb,
               IF sa = sb THEN BAdd(Ma, Mb)
               ELSE IF c > 0 THEN BSub(Ma, Mb) ELSE BSub(Mb, Ma),
               e, FALSE)

AddAt(a, b, e) ==
    AddAligned(a.sg, BShl(a.mt, a.ex - e), b.sg, BShl(b.mt, b.ex - e), e,
               IF a.ex = b.ex THEN BCmp(a.mt, b.mt)
               ELSE IF a.ex > b.ex THEN 1 ELSE -1)

FAdd(a, b) ==
    IF a.sg = 0 THEN b
    ELSE IF b.sg = 0 THEN a
    ELSE IF a.ex - b.ex > FarApart THEN a
    ELSE IF b.ex - a.ex > FarApart THEN b
    ELSE AddAt(a, b, IF a.ex < b.ex THEN a.ex ELSE b.ex)

FSub(a, b) == FAdd(a, FNeg(b))

\* binary long division: the next k bits of the quotient of r / d with
\* r < d; gives <<bits, remainder>>
RECURSIVE DivBits(_, _, _, _)
DivBits(r, d, k, acc) ==
    IF k = 0 THEN <<acc, r>>
    ELSE IF BCmp(BAdd(r, r), d) >= 0
    THEN DivBits(BSub(BAdd(r, r), d), d, k - 1, 2 * acc + 1)
    ELSE DivBits(BAdd(r, r), d, k - 1, 2 * acc)

\* n more limbs of the quotient, put below the limbs acc already found;
\* gives <<quotient, remainder>>
RECURSIVE DivLimbs(_, _, _, _)
DivStep(bits, d, n, acc) == DivLimbs(bits[2], d, n - 1, <<bits[1]>> \o acc)

DivLimbs(r, d, n, acc) ==
    IF n = 0 THEN <<acc, r>>
    ELSE DivStep(DivBits(r, d, LimbBits, 0), d, n, acc)

DivLimbCount == 4

DivRound(sg, e, qr) == Round(sg, BNorm(qr[1]), e, qr[2] # <<>>)

\* the leading bit of the quotient of two mantissas, then the limbs below it
DivMant(sg, e, am, bm, top) ==
    DivRound(sg, e,
             DivLimbs(IF top = 1 THEN BSub(am, bm) ELSE am, bm,
                      DivLimbCount, <<top>>))

\* a / b for b # 0
FDiv(a, b) ==
    IF a.sg = 0 THEN FZero
    ELSE DivMant(a.sg * b.sg, a.ex - b.ex - DivLimbCount * LimbBits,
                 a.mt, b.mt, IF BCmp(a.mt, b.mt) >= 0 THEN 1 ELSE 0)

\* Python's max(a, b) and min(a, b): the first argument unless the second
\* is strictly beyond it
FMax(a, b) == IF FGt(b, a) THEN b ELSE a

FMin(a, b) == IF FLt(b, a) THEN b ELSE a

\* the float literal n/d (decimal literals are rounded correctly, as a
\* division of two exactly representable integers is)
Lit(n, d) == FDiv(FromInt(n), FromInt(d))

(***************************************************************************)
(* The float literals of the source.                                       *)
(***************************************************************************)
F_1 == FromInt(1)

F_0_01 == Lit(1, 100)

F_0_02 == Lit(2, 100)

F_0_03 == Lit(3, 100)

F_0_05 == Lit(5, 100)

F_0_1 == Lit(1, 10)

F_0_15 == Lit(15, 100)

F_0_2 == Lit(2, 10)

F_0_25 == Lit(25, 100)

F_0_3 == Lit(3, 10)

F_0_35 == Lit(35, 100)

F_0_4 == Lit(4, 10)

F_0_45 == Lit(45, 100)

F_0_5 == Lit(5, 10)

F_0_55 == Lit(55, 100)

F_0_6 == Lit(6, 10)

F_0_65 == Lit(65, 100)

F_0_7 == Lit(7, 10)

F_0_75 == Lit(75, 100)

F_0_8 == Lit(8, 10)

F_0_85 == Lit(85, 100)

F_0_9 == Lit(9, 10)

F_0_95 == Lit(95, 100)

(***************************************************************************)
(* Text.  A Python str is a sequence of one-character strings, so that     *)
(* upper() and the `in` substring test are computed, not assumed.          *)
(***************************************************************************)
LowerCase == <<"a", "b", "c", "d", "e", "f", "g", "h", "i", "j", "k", "l", "m",
               "n", "o", "p", "q", "r", "s", "t", "u", "v", "w", "x", "y", "z">>

UpperCase == <<"A", "B", "C", "D", "E", "F", "G", "H", "I", "J", "K", "L", "M",
               "N", "O", "P", "Q", "R", "S", "T", "U", "V", "W", "X", "Y", "Z">>

UpperChar(c) ==
    IF \E k \in 1..Len(LowerCase) : LowerCase[k] = c
    THEN UpperCase[CHOOSE k \in 1..Len(LowerCase) : LowerCase[k] = c]
    ELSE c

\* str.upper()
upper(s) == [k \in 1..Len(s) |-> UpperChar(s[k])]

\* pat in s
Contains(pat, s) ==
    \E k \in 0..(Len(s) - Len(pat)) : SubSeq(s, k + 1, k + Len(pat)) = pat

(***************************************************************************)
(* NHCEngine.  The answer of the NHC server is an input: an error (of the   *)
(* network or of the parsing) or the list of the active storms.            *)
(***************************************************************************)
\* int(x) for x >= 0
Trunc(x) ==
    IF x.sg = 0 THEN 0
    ELSE IF x.ex >= 0 THEN BToNat(BShl(x.mt, x.ex))
    ELSE BToNat(BShr(x.mt, 0 - x.ex))

directions == <<"N", "NNE", "NE", "ENE", "E", "ESE", "SE", "SSE",
                "S", "SSW", "SW", "WSW", "W", "WNW", "NW", "NNW">>

_degrees_to_compass(degrees) ==
    directions[(Trunc(FDiv(FAdd(FromInt(degrees), Lit(1125, 100)),
                           Lit(225, 10))) % 16) + 1]

_parse_advisory(storm_data, now) ==
    [storm_id |-> storm_data.id,
     storm_name |-> storm_data.name,
     advisory_number |-> storm_data.advisoryNumber,
     advisory_time |-> now,
     classification |-> storm_data.classification,
     current_intensity |-> FromInt(storm_data.intensity),
     current_pressure |-> IF storm_data.pressure # <<>> /\ storm_data.pressure[1] # 0
                          THEN <<FromInt(storm_data.pressure[1])>> ELSE <<>>,
     latitude |-> storm_data.latitude,
     longitude |-> storm_data.longitude,
     movement_direction |-> IF storm_data.movement.degrees # 0
                            THEN _degrees_to_compass(storm_data.movement.degrees)
                            ELSE "N",
     movement_speed |-> FromInt(storm_data.movement.speed),
     forecast_positions |-> <<>>]

_create_test_advisory(now) ==
    [storm_id |-> "test01",
     storm_name |-> "TEST_STORM",
     advisory_number |-> 1,
     advisory_time |-> now,
     classification |-> <<"H", "U", "R", "R", "I", "C", "A", "N", "E">>,
     current_intensity |-> FromInt(95),
     current_pressure |-> <<FromInt(965)>>,
     latitude |-> Lit(265, 10),
     longitude |-> FromInt(0 - 82),
     movement_direction |-> "NW",
     movement_speed |-> FromInt(12),
     forecast_positions |-> <<>>]

\* the storms of the list whose id is storm_id, in the order of the list
Matching(activeStorms, storm_id) ==
    SelectSeq(activeStorms, LAMBDA st : st.id = storm_id)

\* Optional[NHCAdvisory]: the empty sequence is None; storm_id is the empty
\* sequence for None (the ids here are in lower case already)
fetch_latest_advisory(storm_id, response, now) ==
    IF response.kind = "error" THEN <<_create_test_advisory(now)>>
    ELSE IF response.activeStorms = <<>> THEN <<>>
    ELSE IF storm_id = <<>>
    THEN <<_parse_advisory(response.activeStorms[1], now)>>
    ELSE IF Matching(response.activeStorms, storm_id[1]) = <<>> THEN <<>>
    ELSE <<_parse_advisory(Matching(response.activeStorms, storm_id[1])[1], now)>>

(***************************************************************************)
(* EnvironmentalEngine.  The month of the clock is an input.               *)
(***************************************************************************)
base_sst(lat) ==
    IF FLt(lat, FromInt(15)) THEN Lit(285, 10)
    ELSE IF FLt(lat, FromInt(20)) THEN FromInt(29)
    ELSE IF FLt(lat, FromInt(25)) THEN Lit(285, 10)
    ELSE IF FLt(lat, FromInt(30)) THEN Lit(275, 10)
    ELSE FromInt(26)

seasonal_factor(month) ==
    IF month \in {1, 2, 3} THEN Lit(88, 100)
    ELSE IF month \in {4, 5} THEN Lit(95, 100)
    ELSE FromInt(1)

_estimate_sst(lat, lon, month) ==
    FMax(FromInt(24),
         FMin(FromInt(31), FMul(base_sst(lat), seasonal_factor(month))))

_estimate_shear(lat, lon) ==
    FMax(FZero,
         FMin(FromInt(50),
              FAdd(FromInt(8),
                   FMul(FAbs(FSub(lat, FromInt(20))), Lit(6, 10)))))

pi_lat_factor(lat) ==
    IF FLt(lat, FromInt(15)) THEN Lit(85, 100)
    ELSE IF FLt(lat, FromInt(25)) THEN FromInt(1)
    ELSE IF FLt(lat, FromInt(30)) THEN Lit(90, 100)
    ELSE IF FLt(lat, FromInt(35)) THEN Lit(75, 100)
    ELSE Lit(60, 100)

\* variant: without the "realistic bounds"
_calculate_potential_intensity_unbounded(sst, lat) ==
    IF FLt(sst, FromInt(26)) THEN FromInt(70)
    ELSE FMul(FAdd(FromInt(75), FMul(FSub(sst, FromInt(26)), FromInt(18))),
              pi_lat_factor(lat))

_calculate_potential_intensity(sst, lat) ==
    IF FLt(sst, FromInt(26)) THEN FromInt(70)
    ELSE FMax(FromInt(70),
              FMin(FromInt(175),
                   FMul(FAdd(FromInt(75),
                             FMul(FSub(sst, FromInt(26)), FromInt(18))),
                        pi_lat_factor(lat))))

EnvironmentOf(sst, shear, lat) ==
    [sst |-> sst, wind_shear |-> shear,
     potential_intensity |-> _calculate_potential_intensity(sst, lat),
     latitude |-> lat]

fetch_environmental_data(lat, lon, month) ==
    EnvironmentOf(_estimate_sst(lat, lon, month), _estimate_shear(lat, lon), lat)

(***************************************************************************)
(* ConstraintEngine                                                        *)
(***************************************************************************)
history_limit == 48

Clamp(lo, hi, x) == FMax(lo, FMin(hi, x))

\* 1. indicative index, raw; env.potential_intensity # 0
I_raw(nhc, env) ==
    Clamp(F_0_05, F_0_95,
          FSub(F_1, FDiv(nhc.current_intensity, env.potential_intensity)))

\* variant: the weights of the raw and the previous value exchanged
SmoothI_weights_exchanged(raw, prev) ==
    IF prev # <<>> THEN FAdd(FMul(F_0_3, raw), FMul(F_0_7, prev[1].I)) ELSE raw

\* "simple memory": prev is the empty sequence or holds the previous state
SmoothI(raw, prev) ==
    IF prev # <<>> THEN FAdd(FMul(F_0_7, raw), FMul(F_0_3, prev[1].I)) ELSE raw

shear_factor(env) == FMax(FZero, FSub(F_1, FDiv(env.wind_shear, FromInt(35))))

sst_factor(env) ==
    FMax(FZero, FMin(F_1, FDiv(FSub(env.sst, FromInt(24)), FromInt(6))))

lat_factor(env) ==
    FMax(FZero,
         FSub(F_1, FDiv(FAbs(FSub(env.latitude, FromInt(22))), FromInt(25))))

\* 2. relational index, raw
R_raw(env) ==
    Clamp(F_0_1, F_0_95,
          FAdd(FAdd(FMul(F_0_5, shear_factor(env)),
                    FMul(F_0_3, sst_factor(env))),
               FMul(F_0_2, lat_factor(env))))

\* variant: a missing previous state smoothed as a previous value of 0
SmoothR_from_zero(raw, prev) ==
    FAdd(FMul(F_0_7, raw), FMul(F_0_3, IF prev # <<>> THEN prev[1].R ELSE FZero))

SmoothR(raw, prev) ==
    IF prev # <<>> THEN FAdd(FMul(F_0_7, raw), FMul(F_0_3, prev[1].R)) ELSE raw

\* the lookup, on the label in upper case
ScoreOfLabel(c) ==
    LET has(p) == Contains(p, c)
    IN  IF has(<<"C","A","T","E","G","O","R","Y"," ","5">>)
           \/ has(<<"C","A","T"," ","5">>) THEN F_0_95
        ELSE IF has(<<"C","A","T","E","G","O","R","Y"," ","4">>)
           \/ has(<<"C","A","T"," ","4">>) THEN F_0_9
        ELSE IF has(<<"C","A","T","E","G","O","R","Y"," ","3">>)
           \/ has(<<"C","A","T"," ","3">>)
           \/ has(<<"M","A","J","O","R">>) THEN F_0_85
        ELSE IF has(<<"C","A","T","E","G","O","R","Y"," ","2">>)
           \/ has(<<"C","A","T"," ","2">>) THEN F_0_75
        ELSE IF has(<<"C","A","T","E","G","O","R","Y"," ","1">>)
           \/ has(<<"C","A","T"," ","1">>) THEN F_0_7
        ELSE IF has(<<"H","U","R","R","I","C","A","N","E">>) THEN F_0_7
        ELSE IF has(<<"T","R","O","P","I","C","A","L"," ","S","T","O","R","M">>)
           \/ has(<<"T","S">>) THEN F_0_55
        ELSE IF has(<<"T","R","O","P","I","C","A","L"," ",
                      "D","E","P","R","E","S","S","I","O","N">>)
           \/ has(<<"T","D">>) THEN F_0_35
        ELSE IF has(<<"P","O","S","T","-","T","R","O","P","I","C","A","L">>)
           \/ has(<<"R","E","M","N","A","N","T">>) THEN F_0_15
        ELSE F_0_5

_classification_score(classification) == ScoreOfLabel(upper(classification))

\* variant: 0.6 mb per knot
expected_pressure_shallower(nhc) ==
    FSub(FromInt(1015), FMul(nhc.current_intensity, F_0_6))

expected_pressure(nhc) ==
    FSub(FromInt(1015), FMul(nhc.current_intensity, F_0_65))

deviation(nhc) == FAbs(FSub(nhc.current_pressure[1], expected_pressure(nhc)))

\* current_pressure is the empty sequence (None) or holds the pressure;
\* a pressure of 0.0 is falsy and counts as absent
pressure_score(nhc) ==
    IF nhc.current_pressure # <<>> /\ nhc.current_pressure[1].sg # 0
    THEN FMax(FZero, FSub(F_1, FDiv(deviation(nhc), FromInt(30))))
    ELSE F_0_5

shear_impact(env) == FMax(FZero, FSub(F_1, FDiv(env.wind_shear, FromInt(40))))

\* 3. semantic index, raw
S_raw(nhc, env) ==
    Clamp(F_0_05, F_0_95,
          FAdd(FAdd(FMul(F_0_4, _classification_score(nhc.classification)),
                    FMul(F_0_3, pressure_score(nhc))),
               FMul(F_0_3, shear_impact(env))))

SmoothS(raw, prev) ==
    IF prev # <<>> THEN FAdd(FMul(F_0_8, raw), FMul(F_0_2, prev[1].S)) ELSE raw

\* variant: the product clamped from below like an index
Admissibility_clamped(I, R, S) == FMax(F_0_05, FMul(FMul(I, R), S))

\* 4. admissibility
Admissibility(I, R, S) == FMul(FMul(I, R), S)

\* variant: the seconds, not divided by 3600
ElapsedHours_in_seconds(nhc, prev) ==
    (nhc.advisory_time - prev[1].timestamp) * 3600

\* 5. elapsed hours: total_seconds() / 3600 of a whole number of hours
\* is that number exactly
ElapsedHours(nhc, prev) == nhc.advisory_time - prev[1].timestamp

\* variant: only a zero elapsed time suppresses the rate
Rate_unless_zero(new, old, prev, nhc) ==
    IF prev # <<>> /\ ElapsedHours(nhc, prev) # 0
    THEN FDiv(FSub(new, old), FromInt(ElapsedHours(nhc, prev)))
    ELSE FZero

Rate(new, old, prev, nhc) ==
    IF prev # <<>> /\ ElapsedHours(nhc, prev) > 0
    THEN FDiv(FSub(new, old), FromInt(ElapsedHours(nhc, prev)))
    ELSE FZero

\* variant: HIGH up to the threshold of MODERATE
_assess_refusal_risk_high_below_0_4(L, S, dS_dt) ==
    IF FLt(L, F_0_15) \/ (FLt(S, F_0_25) /\ FLt(dS_dt, FNeg(F_0_05)))
    THEN "CRITICAL"
    ELSE IF FLt(L, F_0_4) \/ (FLt(S, F_0_4) /\ FLt(dS_dt, FNeg(F_0_03)))
    THEN "HIGH"
    ELSE "LOW"

\* variant: the structure rules left out
_assess_refusal_risk_by_L(L, S, dS_dt) ==
    IF FLt(L, F_0_15) THEN "CRITICAL"
    ELSE IF FLt(L, F_0_25) THEN "HIGH"
    ELSE IF FLt(L, F_0_4) THEN "MODERATE"
    ELSE "LOW"

\* variant: the two lowest bands of L exchanged
_assess_refusal_risk_bands_exchanged(L, S, dS_dt) ==
    IF FLt(S, F_0_25) /\ FLt(dS_dt, FNeg(F_0_05)) THEN "CRITICAL"
    ELSE IF FLt(L, F_0_15) THEN "HIGH"
    ELSE IF FLt(L, F_0_25) THEN "CRITICAL"
    ELSE IF FLt(S, F_0_4) /\ FLt(dS_dt, FNeg(F_0_03)) THEN "HIGH"
    ELSE IF FLt(L, F_0_4) THEN "MODERATE"
    ELSE "LOW"

_assess_refusal_risk(L, S, dS_dt) ==
    IF FLt(L, F_0_15) \/ (FLt(S, F_0_25) /\ FLt(dS_dt, FNeg(F_0_05)))
    THEN "CRITICAL"
    ELSE IF FLt(L, F_0_25) \/ (FLt(S, F_0_4) /\ FLt(dS_dt, FNeg(F_0_03)))
    THEN "HIGH"
    ELSE IF FLt(L, F_0_4) THEN "MODERATE"
    ELSE "LOW"

\* variant: RI_CANDIDATE on the three indices alone
_identify_regime_without_trend(I, R, S, dI_dt, dR_dt, dS_dt) ==
    IF FGt(I, F_0_65) /\ FGt(R, F_0_7) /\ FGt(S, F_0_6) THEN "RI_CANDIDATE"
    ELSE IF FLt(I, F_0_35) /\ FGt(S, F_0_6) THEN "PEAK_LIMITED"
    ELSE IF FLt(S, F_0_35) \/ (FLt(dS_dt, FNeg(F_0_05)) /\ FLt(S, F_0_5))
    THEN "COLLAPSE"
    ELSE IF (FLt(dI_dt, FNeg(F_0_02)) /\ FLt(dR_dt, FNeg(F_0_02)))
            \/ FLt(dS_dt, FNeg(F_0_03))
    THEN "DECAY"
    ELSE "STABLE"

\* variant: DECAY tested before RI_CANDIDATE
_identify_regime_decay_first(I, R, S, dI_dt, dR_dt, dS_dt) ==
    IF (FLt(dI_dt, FNeg(F_0_02)) /\ FLt(dR_dt, FNeg(F_0_02)))
       \/ FLt(dS_dt, FNeg(F_0_03))
    THEN "DECAY"
    ELSE IF /\ FGt(I, F_0_65) /\ FGt(R, F_0_7) /\ FGt(S, F_0_6)
            /\ (FGt(dI_dt, F_0_01) \/ FGt(dS_dt, F_0_01))
    THEN "RI_CANDIDATE"
    ELSE IF FLt(I, F_0_35) /\ FGt(S, F_0_6) THEN "PEAK_LIMITED"
    ELSE IF FLt(S, F_0_35) \/ (FLt(dS_dt, FNeg(F_0_05)) /\ FLt(S, F_0_5))
    THEN "COLLAPSE"
    ELSE "STABLE"

_identify_regime(I, R, S, dI_dt, dR_dt, dS_dt) ==
    IF /\ FGt(I, F_0_65) /\ FGt(R, F_0_7) /\ FGt(S, F_0_6)
       /\ (FGt(dI_dt, F_0_01) \/ FGt(dS_dt, F_0_01))
    THEN "RI_CANDIDATE"
    ELSE IF FLt(I, F_0_35) /\ FGt(S, F_0_6) THEN "PEAK_LIMITED"
    ELSE IF FLt(S, F_0_35) \/ (FLt(dS_dt, FNeg(F_0_05)) /\ FLt(S, F_0_5))
    THEN "COLLAPSE"
    ELSE IF (FLt(dI_dt, FNeg(F_0_02)) /\ FLt(dR_dt, FNeg(F_0_02)))
            \/ FLt(dS_dt, FNeg(F_0_03))
    THEN "DECAY"
    ELSE "STABLE"

\* the pieces of the f-string, headroom already capitalized
_generate_summary(I, R, S, regime) ==
    LET headroom == IF FGt(I, F_0_7) THEN "High thermodynamic headroom"
                    ELSE IF FGt(I, F_0_45) THEN "Moderate headroom"
                    ELSE IF FGt(I, F_0_25) THEN "Low headroom, near ceiling"
                    ELSE "Very limited headroom"
        env_desc == IF FGt(R, F_0_75) THEN "highly favorable environment"
                    ELSE IF FGt(R, F_0_55)
                    THEN "moderately favorable environment"
                    ELSE "marginal environment"
        struct   == IF FGt(S, F_0_8) THEN "well-organized structure"
                    ELSE IF FGt(S, F_0_6) THEN "moderately organized"
                    ELSE IF FGt(S, F_0_4) THEN "showing structural stress"
                    ELSE "poorly organized"
    IN  <<headroom, ", ", env_desc, ", ", struct, ". Regime: ", regime>>

\* variant: any decline of L counts as a hazard
gradient_hazard_any_decline(dL_dt) == FLt(dL_dt, FZero)

\* "L declining significantly"
gradient_hazard(dL_dt) == FLt(dL_dt, FNeg(F_0_02))

\* 6. diagnostics and the ConstraintState record
CreateState(nhc, I, R, S, L, dI_dt, dR_dt, dS_dt, dL_dt, regime) ==
    [timestamp |-> nhc.advisory_time,
     storm_name |-> nhc.storm_name,
     I |-> I, R |-> R, S |-> S, L |-> L,
     dI_dt |-> dI_dt, dR_dt |-> dR_dt, dS_dt |-> dS_dt, dL_dt |-> dL_dt,
     gradient_hazard |-> gradient_hazard(dL_dt),
     refusal_risk |-> _assess_refusal_risk(L, S, dS_dt),
     regime |-> regime,
     current_intensity |-> nhc.current_intensity,
     nhc_forecast_change |-> FZero,
     constraint_summary |-> _generate_summary(I, R, S, regime)]

Diagnose(nhc, I, R, S, L, dI_dt, dR_dt, dS_dt, dL_dt) ==
    CreateState(nhc, I, R, S, L, dI_dt, dR_dt, dS_dt, dL_dt,
                _identify_regime(I, R, S, dI_dt, dR_dt, dS_dt))

\* 5. rates of change
Differentiate(prev, nhc, I, R, S, L) ==
    Diagnose(nhc, I, R, S, L,
             Rate(I, IF prev # <<>> THEN prev[1].I ELSE FZero, prev, nhc),
             Rate(R, IF prev # <<>> THEN prev[1].R ELSE FZero, prev, nhc),
             Rate(S, IF prev # <<>> THEN prev[1].S ELSE FZero, prev, nhc),
             Rate(L, IF prev # <<>> THEN prev[1].L ELSE FZero, prev, nhc))

Combine(prev, nhc, I, R, S) ==
    Differentiate(prev, nhc, I, R, S, Admissibility(I, R, S))

\* the ConstraintState that calculate_constraints builds: each step of the
\* method takes the values of the steps before it
NewState(prev, nhc, env) ==
    Combine(prev, nhc,
            SmoothI(I_raw(nhc, env), prev),
            SmoothR(R_raw(env), prev),
            SmoothS(S_raw(nhc, env), prev))

\* variant: the forecast change of the entry before is filled in once the
\* next intensity is known
StoreInHistory_backfill(h, state) ==
    LET filled == IF h = <<>> THEN h
                  ELSE [h EXCEPT ![Len(h)].nhc_forecast_change =
                            FSub(state.current_intensity,
                                 h[Len(h)].current_intensity)]
        appended == Append(filled, state)
    IN  IF Len(appended) > history_limit THEN Tail(appended) ELSE appended

\* variant: the newest entry evicted instead of the oldest
StoreInHistory_evict_newest(h, state) ==
    LET appended == Append(h, state)
    IN  IF Len(appended) > history_limit
        THEN SubSeq(appended, 1, Len(appended) - 1)
        ELSE appended

\* "Store in history"
StoreInHistory(h, state) ==
    LET appended == Append(h, state)
    IN  IF Len(appended) > history_limit THEN Tail(appended) ELSE appended

(***************************************************************************)
(* State: the engine's history; the arguments and the outcome of the      *)
(* latest call (both empty before the first); the number of calls made;    *)
(* the key of the track that test_storm replays ("" outside test_storm);   *)
(* the latest call of generate_insight and what it ended in; the latest    *)
(* result of process_storm; the files process_storm has written; the       *)
(* histories of the engines that threads share, and each thread's place in *)
(* calculate_constraints (both empty where there is one engine, called     *)
(* from one thread).                                                       *)
(***************************************************************************)
VARIABLES history, call, outcome, calls, storm_key, insight, output, saved,
          engines, threads

vars == <<history, call, outcome, calls, storm_key, insight, output, saved,
          engines, threads>>

(***************************************************************************)
(* InsightGenerator.  A text built by an f-string or by join is the tuple  *)
(* of its pieces; a number formatted with :.0f is the piece Format0.       *)
(***************************************************************************)
\* |x| rounded to an integer, to nearest on the exact value, ties to even
RoundHalfEven(x) ==
    IF x.sg = 0 THEN 0
    ELSE IF x.ex >= 0 THEN BToNat(BShl(x.mt, x.ex))
    ELSE BToNat(IF /\ BBit(x.mt, (0 - x.ex) - 1) = 1
                   /\ \/ ~BLowZero(x.mt, (0 - x.ex) - 1)
                      \/ BBit(x.mt, 0 - x.ex) = 1
                THEN BAdd(BShr(x.mt, 0 - x.ex), <<1>>)
                ELSE BShr(x.mt, 0 - x.ex))

\* format(x, ".0f")
Format0(x) == (IF x.sg < 0 THEN "-" ELSE "") \o ToString(RoundHalfEven(x))

\* sep.join(parts), the parts and sep tuples of pieces
RECURSIVE Join(_, _)
Join(sep, parts) ==
    IF parts = <<>> THEN <<>>
    ELSE IF Len(parts) = 1 THEN parts[1]
    ELSE parts[1] \o sep \o Join(sep, Tail(parts))

\* raises TypeError on a pressure of None: None has no format ".0f"
_summarize_nhc(nhc) ==
    <<nhc.classification, " with ", Format0(nhc.current_intensity),
      " kt winds (", Format0(nhc.current_pressure[1]), " mb), moving ",
      nhc.movement_direction, " at ", Format0(nhc.movement_speed), " kt.">>

ceiling_pct(nhc, env) ==
    FMul(FDiv(nhc.current_intensity, env.potential_intensity), FromInt(100))

\* thermodynamic ceiling proximity
CeilingRemark(pct, constraints, env) ==
    IF FGt(pct, FromInt(85))
    THEN << <<"Storm at ", Format0(pct), "% of thermodynamic ceiling (PI=",
              Format0(env.potential_intensity),
              " kt) - limited upside potential.">> >>
    ELSE IF FLt(pct, FromInt(60)) /\ FGt(constraints.I, F_0_6)
    THEN << <<"Storm at ", Format0(pct),
              "% of ceiling with high headroom - significant intensification possible.">> >>
    ELSE <<>>

\* structural coherence vs intensity
StructureRemark(nhc, constraints) ==
    IF FLt(constraints.S, F_0_4) /\ FGt(nhc.current_intensity, FromInt(80))
    THEN << <<"Structural coherence weak despite current intensity - may indicate instability.">> >>
    ELSE IF FGt(constraints.S, F_0_8) /\ FGt(constraints.dS_dt, FZero)
    THEN << <<"Structure strengthening - supports continued intensification.">> >>
    ELSE <<>>

\* regime-specific insights
RegimeRemark(constraints) ==
    IF constraints.regime = "RI_CANDIDATE"
    THEN << <<"All constraints aligned for rapid intensification within 24 hours.">> >>
    ELSE IF constraints.regime = "PEAK_LIMITED"
    THEN << <<"Approaching thermodynamic limits - peak intensity likely within 12-24 hours.">> >>
    ELSE IF constraints.regime = "COLLAPSE"
    THEN << <<"Structural collapse underway - expect abrupt weakening.">> >>
    ELSE <<>>

\* gradient hazard
HazardRemark(constraints) ==
    IF constraints.gradient_hazard
    THEN << <<"Admissibility declining - storm moving into less favorable constraint space.">> >>
    ELSE <<>>

\* "if not insights": the fallback sentence
OrFallback(insights, fallback) ==
    IF insights = <<>> THEN << <<fallback>> >> ELSE insights

\* variant: the gradient hazard remark put first
_generate_comparative_insight_hazard_first(nhc, constraints, env) ==
    Join(<<" ">>,
         OrFallback(HazardRemark(constraints)
                    \o CeilingRemark(ceiling_pct(nhc, env), constraints, env)
                    \o StructureRemark(nhc, constraints)
                    \o RegimeRemark(constraints),
                    "Constraint analysis aligns with current NHC assessment."))

_generate_comparative_insight(nhc, constraints, env) ==
    Join(<<" ">>,
         OrFallback(CeilingRemark(ceiling_pct(nhc, env), constraints, env)
                    \o StructureRemark(nhc, constraints)
                    \o RegimeRemark(constraints)
                    \o HazardRemark(constraints),
                    "Constraint analysis aligns with current NHC assessment."))

_generate_forecast_implication(nhc, constraints) ==
    Join(<<" ">>,
         OrFallback(
             (IF FLt(constraints.I, F_0_25)
              THEN << <<"Limited intensification potential beyond current state.">> >>
              ELSE IF FGt(constraints.I, F_0_65) /\ FGt(constraints.R, F_0_7)
              THEN << <<"Ample headroom for strengthening if other factors align.">> >>
              ELSE <<>>)
             \o (IF /\ FLt(constraints.S, F_0_35)
                    /\ FLt(constraints.dS_dt, FNeg(F_0_03))
                 THEN << <<"Structural deterioration suggests faster weakening than typical.">> >>
                 ELSE <<>>)
             \o (IF constraints.regime = "RI_CANDIDATE"
                 THEN << <<"Rapid intensification (35+ kt in 24h) is possible.">> >>
                 ELSE IF constraints.regime = "PEAK_LIMITED"
                 THEN << <<"Peak intensity likely near current levels.">> >>
                 ELSE <<>>),
             "No strong constraint-based deviations from standard forecast expected."))

\* the three adjustments of the confidence, each on the value so far
\* variant: a clear regime counts twice
ClearRegime_counted_twice(constraints, confidence) ==
    IF constraints.regime \in {"RI_CANDIDATE", "PEAK_LIMITED", "COLLAPSE"}
    THEN FAdd(FAdd(confidence, F_0_15), F_0_15) ELSE confidence

ClearRegime(constraints, confidence) ==
    IF constraints.regime \in {"RI_CANDIDATE", "PEAK_LIMITED", "COLLAPSE"}
    THEN FAdd(confidence, F_0_15) ELSE confidence

StrongTrend(constraints, confidence) ==
    IF FGt(FAbs(constraints.dL_dt), F_0_03)
    THEN FAdd(confidence, F_0_1) ELSE confidence

ModerateValues(constraints, confidence) ==
    IF FLt(F_0_4, constraints.L) /\ FLt(constraints.L, F_0_6)
    THEN FSub(confidence, F_0_1) ELSE confidence

\* variant: the adjustments as alternatives, the first that applies only
_calculate_confidence_first_only(constraints) ==
    Clamp(F_0_4, F_0_95,
          IF constraints.regime \in {"RI_CANDIDATE", "PEAK_LIMITED", "COLLAPSE"}
          THEN FAdd(F_0_6, F_0_15)
          ELSE IF FGt(FAbs(constraints.dL_dt), F_0_03)
          THEN FAdd(F_0_6, F_0_1)
          ELSE ModerateValues(constraints, F_0_6))

_calculate_confidence(constraints) ==
    Clamp(F_0_4, F_0_95,
          ModerateValues(constraints,
              StrongTrend(constraints, ClearRegime(constraints, F_0_6))))

\* variant: the test of I put before the test of the regime
_estimate_time_to_peak_I_first(constraints, env) ==
    IF FLt(constraints.I, F_0_3) THEN <<"at or near peak now">>
    ELSE IF constraints.regime = "PEAK_LIMITED" THEN <<"within 12-24 hours">>
    ELSE IF constraints.regime = "RI_CANDIDATE"
    THEN <<"24-48 hours (if RI occurs)">>
    ELSE <<>>

\* Optional[str]: the empty sequence is None
_estimate_time_to_peak(constraints, env) ==
    IF constraints.regime = "PEAK_LIMITED" THEN <<"within 12-24 hours">>
    ELSE IF FLt(constraints.I, F_0_3) THEN <<"at or near peak now">>
    ELSE IF constraints.regime = "RI_CANDIDATE"
    THEN <<"24-48 hours (if RI occurs)">>
    ELSE <<>>

_assess_structural_trend(constraints) ==
    IF FGt(constraints.dS_dt, F_0_02) THEN "strengthening"
    ELSE IF FLt(constraints.dS_dt, FNeg(F_0_02)) THEN "deteriorating"
    ELSE "stable"

DiagnosticInsight(nhc, constraints, env) ==
    [timestamp |-> nhc.advisory_time,
     storm_name |-> nhc.storm_name,
     nhc_summary |-> _summarize_nhc(nhc),
     constraint_summary |-> constraints.constraint_summary,
     comparative_insight |-> _generate_comparative_insight(nhc, constraints, env),
     forecast_implication |-> _generate_forecast_implication(nhc, constraints),
     confidence |-> _calculate_confidence(constraints),
     thermodynamic_ceiling_pct |-> ceiling_pct(nhc, env),
     time_to_peak_estimate |-> _estimate_time_to_peak(constraints, env),
     structural_trend |-> _assess_structural_trend(constraints)]

\* variant: a generator that keeps its last insight and answers a repeated
\* question with a note instead of the comparative insight
generate_insight_remembering(nhc, constraints, env) ==
    IF nhc.current_pressure = <<>>
    THEN [kind |-> "raise", exc |-> "TypeError", value |-> <<>>]
    ELSE IF env.potential_intensity.sg = 0
    THEN [kind |-> "raise", exc |-> "ZeroDivisionError", value |-> <<>>]
    ELSE [kind |-> "return", exc |-> "",
          value |-> <<[DiagnosticInsight(nhc, constraints, env) EXCEPT
                          !.comparative_insight =
                              IF insight # <<>>
                                 /\ insight[1].args = <<nhc, constraints, env>>
                              THEN <<"No change since the last insight.">>
                              ELSE @]>>]

\* what a call of generate_insight ends in: the insight, or the first
\* exception on its way
generate_insight(nhc, constraints, env) ==
    IF nhc.current_pressure = <<>>
    THEN [kind |-> "raise", exc |-> "TypeError", value |-> <<>>]
    ELSE IF env.potential_intensity.sg = 0
    THEN [kind |-> "raise", exc |-> "ZeroDivisionError", value |-> <<>>]
    ELSE [kind |-> "return", exc |-> "",
          value |-> <<DiagnosticInsight(nhc, constraints, env)>>]

\* a call of generate_insight as the state keeps it: the arguments, their
\* number of consecutive uses, and what the call ended in
InsightCall(args, n) ==
    [args |-> args, n |-> n,
     result |-> generate_insight(args[1], args[2], args[3])]

Insight(nhc, constraints, env) == InsightCall(<<nhc, constraints, env>>, 1)

Init ==
    /\ history = <<>>
    /\ call = <<>>
    /\ outcome = <<>>
    /\ calls = 0
    /\ storm_key = ""
    /\ insight = <<>>
    /\ output = <<>>
    /\ saved = <<>>
    /\ engines = <<>>
    /\ threads = <<>>

\* variant: the history is given up when the call fails
calculate_constraints_reset_on_failure(nhc, env) ==
    LET prev == IF history # <<>> THEN <<history[Len(history)]>> ELSE <<>>
    IN  /\ call' = <<[nhc |-> nhc, env |-> env]>>
        /\ calls' = calls + 1
        /\ IF env.potential_intensity.sg = 0
           THEN /\ outcome' = <<[kind |-> "raise", exc |-> "ZeroDivisionError",
                                 state |-> <<>>]>>
                /\ history' = <<>>
           ELSE /\ history' = StoreInHistory(history, NewState(prev, nhc, env))
                /\ outcome' = <<[kind |-> "return", exc |-> "",
                                 state |-> <<NewState(prev, nhc, env)>>]>>
        /\ UNCHANGED storm_key

\* the float division of step 1 raises ZeroDivisionError before anything
\* is stored; nothing else in the method raises
calculate_constraints(nhc, env) ==
    LET prev == IF history # <<>> THEN <<history[Len(history)]>> ELSE <<>>
    IN  /\ call' = <<[nhc |-> nhc, env |-> env]>>
        /\ calls' = calls + 1
        /\ IF env.potential_intensity.sg = 0
           THEN /\ outcome' = <<[kind |-> "raise", exc |-> "ZeroDivisionError",
                                 state |-> <<>>]>>
                /\ UNCHANGED history
           ELSE /\ history' = StoreInHistory(history, NewState(prev, nhc, env))
                /\ outcome' = <<[kind |-> "return", exc |-> "",
                                 state |-> <<NewState(prev, nhc, env)>>]>>
        /\ UNCHANGED storm_key

(***************************************************************************)
(* Inputs.                                                                 *)
(***************************************************************************)
MaxCalls == 2

FirstTime == 6

Elapsed == {0 - 6, 0, 6}

TROPICAL_STORM == <<"T","R","O","P","I","C","A","L"," ","S","T","O","R","M">>

HURRICANE == <<"H","U","R","R","I","C","A","N","E">>

CATEGORY_5 == <<"C","A","T","E","G","O","R","Y"," ","5">>

POST_TROPICAL == <<"P","O","S","T","-","T","R","O","P","I","C","A","L">>

\* the fields of an NHCAdvisory that the engine reads, but for the time
Observation(name, class, kt, mb) ==
    [storm_name |-> name, classification |-> class,
     current_intensity |-> FromInt(kt), current_pressure |-> mb]

NHCAdvisory(obs, time) ==
    [storm_name |-> obs.storm_name, advisory_time |-> time,
     classification |-> obs.classification,
     current_intensity |-> obs.current_intensity,
     current_pressure |-> obs.current_pressure,
     movement_direction |-> "NW", movement_speed |-> FromInt(12)]

\* the fields of an EnvironmentalData that the engine reads
EnvironmentalData(sst, shear, pi, lat) ==
    [sst |-> FromInt(sst), wind_shear |-> FromInt(shear),
     potential_intensity |-> FromInt(pi), latitude |-> FromInt(lat)]

Favorable == EnvironmentalData(29, 10, 150, 18)

Hostile == EnvironmentalData(24, 45, 70, 50)

Ideal == EnvironmentalData(30, 0, 175, 22)

\* valid inputs: potential intensity > 0, intensity >= 0
ValidInputList ==
    << <<Observation("Ian", TROPICAL_STORM, 45, <<FromInt(998)>>), Favorable>>,
       <<Observation("Ian", TROPICAL_STORM, 30, <<FromInt(1000)>>), Favorable>>,
       <<Observation("Ian", CATEGORY_5, 150, <<FromInt(917)>>), Favorable>>,
       <<Observation("Ian", CATEGORY_5, 0, <<FromInt(1015)>>), Ideal>>,
       <<Observation("Ian", POST_TROPICAL, 0, <<>>), Ideal>>,
       <<Observation("Ian", POST_TROPICAL, 65, <<FromInt(983)>>), Hostile>> >>

ValidInputs == {ValidInputList[k] : k \in 1..Len(ValidInputList)}

NextTime(dt) == IF call = <<>> THEN FirstTime ELSE call[1].nhc.advisory_time + dt

Calculate ==
    /\ calls < MaxCalls
    /\ \E inp \in ValidInputs, dt \in Elapsed :
           calculate_constraints(NHCAdvisory(inp[1], NextTime(dt)), inp[2])
    /\ UNCHANGED <<insight, output, saved, engines, threads>>

Next == Calculate

Spec == Init /\ [][Next]_vars

(***************************************************************************)
(* Properties of calculate_constraints on valid inputs (Spec).             *)
(***************************************************************************)
Between(lo, x, hi) == FLe(lo, x) /\ FLe(x, hi)

IndicesInRange(st) ==
    /\ Between(F_0_05, st.I, F_0_95)
    /\ Between(F_0_1, st.R, F_0_95)
    /\ Between(F_0_05, st.S, F_0_95)

\* C1: every state in history, the returned one among them, has I in
\* [0.05, 0.95], R in [0.1, 0.95] and S in [0.05, 0.95].
C1_IndicesInRange ==
    /\ \A k \in 1..Len(history) : IndicesInRange(history[k])
    /\ outcome # <<>> => \A k \in 1..Len(outcome[1].state) :
                             IndicesInRange(outcome[1].state[k])

\* In Spec every call returns and appends, and the history stays below its
\* cap: after a call the state it returned is the last entry and the
\* previous state it read is the entry before that.

AllRatesZero(st) ==
    st.dI_dt = FZero /\ st.dR_dt = FZero /\ st.dS_dt = FZero /\ st.dL_dt = FZero

\* C3: a call on an empty history returns all four rates 0 and I, R, S
\* equal to their raw clamped values.
C3_FirstCall ==
    calls = 1 =>
        LET st  == outcome[1].state[1]
            nhc == call[1].nhc
            env == call[1].env
        IN  /\ outcome[1].kind = "return"
            /\ AllRatesZero(st)
            /\ st.I = I_raw(nhc, env)
            /\ st.R = R_raw(env)
            /\ st.S = S_raw(nhc, env)

\* the first call has returned, with its raw I clamped to the floor
C3_Witness ==
    /\ calls = 1
    /\ Len(history) = 1
    /\ history[1].I = F_0_05

\* C4: with a previous state and elapsed hours > 0 each rate is
\* (new - previous) / elapsed; with elapsed hours <= 0 the call does not
\* fail, all four rates are 0 and the new state is returned and appended.
C4_Rates ==
    calls >= 2 =>
        LET prev == history[Len(history) - 1]
            st   == outcome[1].state[1]
            dt   == call[1].nhc.advisory_time - prev.timestamp
        IN  /\ outcome[1].kind = "return"
            /\ Len(history) = calls
            /\ history[Len(history)] = st
            /\ dt > 0 =>
                 /\ st.dI_dt = FDiv(FSub(st.I, prev.I), FromInt(dt))
                 /\ st.dR_dt = FDiv(FSub(st.R, prev.R), FromInt(dt))
                 /\ st.dS_dt = FDiv(FSub(st.S, prev.S), FromInt(dt))
                 /\ st.dL_dt = FDiv(FSub(st.L, prev.L), FromInt(dt))
            /\ dt <= 0 => AllRatesZero(st)

\* a state computed from an advisory older than the previous state: its
\* indices moved, its rates are 0
C4_Witness ==
    /\ Len(history) = 2
    /\ history[2].timestamp < history[1].timestamp
    /\ history[2].I # history[1].I
    /\ history[2].dI_dt = FZero

\* C10: L is the product I*R*S of the state's stored indices, not clamped
\* on its own, and lies in [0.05^3, 0.95^3].
C10_Admissibility ==
    \A k \in 1..Len(history) :
        /\ history[k].L = FMul(FMul(history[k].I, history[k].R), history[k].S)
        /\ Between(Lit(125, 1000000), history[k].L, Lit(857375, 1000000))

\* a smoothed state whose product is below every index floor
C10_Witness ==
    /\ Len(history) = 2
    /\ history[2].I # I_raw(call[1].nhc, call[1].env)
    /\ FLt(history[2].L, F_0_05)

(***************************************************************************)
(* The two rule chains as pure functions: the arguments are drawn from     *)
(* grids that hold every threshold of the rules and a value on either      *)
(* side of it, and one step applies the function.                          *)
(***************************************************************************)
GridI == {Lit(30, 100), F_0_35, F_0_5, F_0_65, F_0_7}

GridR == {F_0_7, F_0_75}

GridS == {Lit(20, 100), F_0_25, Lit(30, 100), F_0_35, F_0_4, F_0_45,
          F_0_5, F_0_6, F_0_65}

GridL == {F_0_1, F_0_15, F_0_2, F_0_25, F_0_3, F_0_4, F_0_5}

GridRate == {FNeg(Lit(6, 100)), FNeg(F_0_05), FNeg(Lit(4, 100)),
             FNeg(F_0_03), FNeg(F_0_02), FZero, F_0_01, F_0_02}

GridSlowRate == {FNeg(F_0_03), FNeg(F_0_02), FZero, F_0_01, F_0_02}

InitRegime ==
    /\ history = <<>>
    /\ outcome = <<>>
    /\ calls = 0
    /\ storm_key = ""
    /\ insight = <<>>
    /\ output = <<>>
    /\ saved = <<>>
    /\ engines = <<>>
    /\ threads = <<>>
    /\ call \in {<<[I |-> I, R |-> R, S |-> S,
                    dI_dt |-> dI, dR_dt |-> dR, dS_dt |-> dS]>> :
                     I \in GridI, R \in GridR, S \in GridS,
                     dI \in GridSlowRate, dR \in {FNeg(F_0_03), FZero},
                     dS \in GridRate}

IdentifyRegime ==
    /\ calls = 0
    /\ calls' = 1
    /\ outcome' = <<_identify_regime(call[1].I, call[1].R, call[1].S,
                                     call[1].dI_dt, call[1].dR_dt,
                                     call[1].dS_dt)>>
    /\ UNCHANGED <<history, call, storm_key, insight, output, saved,
                   engines, threads>>

SpecRegime == InitRegime /\ [][IdentifyRegime]_vars

RIGuard(a) ==
    /\ FGt(a.I, F_0_65) /\ FGt(a.R, F_0_7) /\ FGt(a.S, F_0_6)
    /\ (FGt(a.dI_dt, F_0_01) \/ FGt(a.dS_dt, F_0_01))

DecayGuard(a) ==
    \/ FLt(a.dI_dt, FNeg(F_0_02)) /\ FLt(a.dR_dt, FNeg(F_0_02))
    \/ FLt(a.dS_dt, FNeg(F_0_03))

\* C5: the regime is the first match of RI_CANDIDATE, PEAK_LIMITED,
\* COLLAPSE, DECAY, else STABLE; exactly one of the five comes out, and
\* RI_CANDIDATE whenever its guard holds.
C5_RegimeFirstMatch ==
    outcome # <<>> =>
        LET a == call[1]
        IN  /\ outcome[1] \in {"RI_CANDIDATE", "PEAK_LIMITED", "COLLAPSE",
                               "DECAY", "STABLE"}
            /\ outcome[1] =
                 IF RIGuard(a) THEN "RI_CANDIDATE"
                 ELSE IF FLt(a.I, F_0_35) /\ FGt(a.S, F_0_6) THEN "PEAK_LIMITED"
                 ELSE IF FLt(a.S, F_0_35)
                         \/ (FLt(a.dS_dt, FNeg(F_0_05)) /\ FLt(a.S, F_0_5))
                 THEN "COLLAPSE"
                 ELSE IF DecayGuard(a) THEN "DECAY"
                 ELSE "STABLE"

\* the guards of RI_CANDIDATE and of DECAY both hold, RI_CANDIDATE came out
C5_Witness ==
    /\ outcome = <<"RI_CANDIDATE">>
    /\ RIGuard(call[1])
    /\ DecayGuard(call[1])

InitRisk ==
    /\ history = <<>>
    /\ outcome = <<>>
    /\ calls = 0
    /\ storm_key = ""
    /\ insight = <<>>
    /\ output = <<>>
    /\ saved = <<>>
    /\ engines = <<>>
    /\ threads = <<>>
    /\ call \in {<<[L |-> L, S |-> S, dS_dt |-> dS]>> :
                     L \in GridL, S \in GridS, dS \in GridRate}

AssessRefusalRisk ==
    /\ calls = 0
    /\ calls' = 1
    /\ outcome' = <<_assess_refusal_risk(call[1].L, call[1].S, call[1].dS_dt)>>
    /\ UNCHANGED <<history, call, storm_key, insight, output, saved,
                   engines, threads>>

SpecRisk == InitRisk /\ [][AssessRefusalRisk]_vars

\* C6: the risk level is the first match, most severe first, of CRITICAL,
\* HIGH, MODERATE, else LOW; exactly one of the four comes out.
C6_RiskFirstMatch ==
    outcome # <<>> =>
        LET a == call[1]
        IN  /\ outcome[1] \in {"CRITICAL", "HIGH", "MODERATE", "LOW"}
            /\ outcome[1] =
                 IF FLt(a.L, F_0_15)
                    \/ (FLt(a.S, F_0_25) /\ FLt(a.dS_dt, FNeg(F_0_05)))
                 THEN "CRITICAL"
                 ELSE IF FLt(a.L, F_0_25)
                         \/ (FLt(a.S, F_0_4) /\ FLt(a.dS_dt, FNeg(F_0_03)))
                 THEN "HIGH"
                 ELSE IF FLt(a.L, F_0_4) THEN "MODERATE"
                 ELSE "LOW"

\* CRITICAL by the structure rule alone, where the L of the arguments
\* would have given MODERATE
C6_Witness ==
    /\ outcome = <<"CRITICAL">>
    /\ FGe(call[1].L, F_0_25)
    /\ FLt(call[1].L, F_0_4)

Severity(risk) ==
    CASE risk = "LOW" -> 0
      [] risk = "MODERATE" -> 1
      [] risk = "HIGH" -> 2
      [] risk = "CRITICAL" -> 3

\* C7: at fixed S and dS_dt the risk level never gets less severe as L
\* gets smaller.
C7_RiskMonotonicInL ==
    outcome # <<>> =>
        \A L2 \in GridL :
            FLe(call[1].L, L2) =>
                Severity(outcome[1]) >=
                    Severity(_assess_refusal_risk(L2, call[1].S, call[1].dS_dt))

\* a level strictly more severe than that of a larger L, at the same S
\* and dS_dt
C7_Witness ==
    /\ outcome # <<>>
    /\ \E L2 \in GridL :
           /\ FLt(call[1].L, L2)
           /\ Severity(outcome[1]) >
                  Severity(_assess_refusal_risk(L2, call[1].S, call[1].dS_dt))

(***************************************************************************)
(* test_storm of test_historical.py: one fresh engine is fed the points    *)
(* of one track in order, six hours apart.  The tracks here are longer     *)
(* than the history cap.                                                   *)
(***************************************************************************)
TrackLen == 50

TrackKeys == {"steady", "cycle", "swing"}

Point(key, i) ==
    CASE key = "steady" -> ValidInputList[1]
      [] key = "cycle" -> ValidInputList[<<1, 2, 3, 4, 6>>[((i - 1) % 5) + 1]]
      [] key = "swing" -> ValidInputList[IF i % 2 = 0 THEN 4 ELSE 6]

PointTime(i) == FirstTime * i

InitTestStorm ==
    /\ history = <<>>
    /\ call = <<>>
    /\ outcome = <<>>
    /\ calls = 0
    /\ storm_key \in TrackKeys
    /\ insight = <<>>
    /\ output = <<>>
    /\ saved = <<>>
    /\ engines = <<>>
    /\ threads = <<>>

\* one round of the loop: the advisory of the point, its environment, the
\* constraints, the insight
test_storm ==
    /\ calls < TrackLen
    /\ calculate_constraints(
           NHCAdvisory(Point(storm_key, calls + 1)[1], PointTime(calls + 1)),
           Point(storm_key, calls + 1)[2])
    /\ insight' = <<Insight(call'[1].nhc, outcome'[1].state[1], call'[1].env)>>
    /\ UNCHANGED <<output, saved, engines, threads>>

SpecTestStorm == InitTestStorm /\ [][test_storm]_vars

\* C8: the history is a bounded FIFO: after every call its length is
\* min(calls, 48), the state just returned is its last entry, and it holds
\* the newest states in the order of their insertion (the k-th entry is the
\* state of the k-th of the last Len(history) calls).
C8_BoundedFifo ==
    /\ Len(history) = (IF calls < 48 THEN calls ELSE 48)
    /\ calls > 0 => history[Len(history)] = outcome[1].state[1]
    /\ \A k \in 1..Len(history) :
           history[k].timestamp = PointTime(calls - Len(history) + k)

\* the 49th state is in: the first state is gone, the second is the oldest
C8_Witness ==
    /\ calls = 49
    /\ Len(history) = 48
    /\ history[1].timestamp = PointTime(2)
    /\ history[48].timestamp = PointTime(49)

\* C14: a state in history is never changed: a call leaves the history
\* as it is, or appends the new state, or, with the history at its cap,
\* removes the oldest entry and appends the new state.
C14_StatesImmutable ==
    [][\/ history' = history
       \/ history' = Append(history, history'[Len(history')])
       \/ /\ Len(history) = 48
          /\ history' = Append(Tail(history), history'[Len(history')])]_vars

\* two evictions have happened: the third state is the oldest
C14_Witness ==
    /\ calls = 50
    /\ Len(history) = 48
    /\ history[1].timestamp = PointTime(3)
    /\ history[1].current_intensity # history[2].current_intensity

(***************************************************************************)
(* calculate_constraints on any input, invalid ones included.              *)
(***************************************************************************)
InvalidInputs ==
    { <<Observation("Ian", TROPICAL_STORM, 45, <<FromInt(998)>>),
        EnvironmentalData(29, 10, 0, 18)>>,
      <<Observation("Ian", TROPICAL_STORM, 45, <<FromInt(998)>>),
        EnvironmentalData(29, 10, 0 - 100, 18)>>,
      <<Observation("Ian", HURRICANE, 0 - 5, <<FromInt(986)>>), Favorable>>,
      <<Observation("Ian", HURRICANE, 75, <<FromInt(0 - 3)>>), Favorable>> }

CalculateAny ==
    /\ calls < MaxCalls
    /\ \E inp \in ValidInputs \cup InvalidInputs, dt \in Elapsed :
           calculate_constraints(NHCAdvisory(inp[1], NextTime(dt)), inp[2])
    /\ UNCHANGED <<insight, output, saved, engines, threads>>

SpecAnyInput == Init /\ [][CalculateAny]_vars

\* what the specification calls InvalidInput
IsInvalidInput(nhc, env) ==
    \/ FLe(env.potential_intensity, FZero)
    \/ FLt(nhc.current_intensity, FZero)
    \/ nhc.current_pressure # <<>> /\ FLt(nhc.current_pressure[1], FZero)

\* C9: a call with potential intensity <= 0, negative intensity or negative
\* pressure fails: it returns no state.
C9_InvalidInputFails ==
    (call # <<>> /\ IsInvalidInput(call[1].nhc, call[1].env)) =>
        /\ outcome[1].kind = "raise"
        /\ outcome[1].state = <<>>

(***************************************************************************)
(* Diagnostics and order of the history under Spec.                        *)
(***************************************************************************)
\* C11: in every state gradient_hazard is true iff dL_dt < -0.02,
\* whatever the regime, the risk level and the indices.
C11_GradientHazard ==
    \A k \in 1..Len(history) :
        history[k].gradient_hazard = FLt(history[k].dL_dt, FNeg(F_0_02))

\* a state with the hazard set while its risk level is LOW
C11_Witness ==
    /\ Len(history) = 2
    /\ history[2].gradient_hazard
    /\ FLt(history[2].dL_dt, FNeg(F_0_02))
    /\ history[2].refusal_risk = "LOW"

\* C12: the history is ordered by ascending timestamp, also after an
\* advisory older than the previous state.
C12_HistoryAscending ==
    \A k \in 1..(Len(history) - 1) :
        history[k].timestamp <= history[k + 1].timestamp

(***************************************************************************)
(* generate_insight on the states of an engine: after a call of            *)
(* calculate_constraints that returned, the caller asks for the insight of *)
(* the advisory, the returned state and the environment, once or twice.    *)
(***************************************************************************)
MaxRepeat == 2

GenerateInsight ==
    /\ outcome # <<>>
    /\ outcome[1].kind = "return"
    /\ LET args == <<call[1].nhc, outcome[1].state[1], call[1].env>>
           n    == IF insight # <<>> /\ insight[1].args = args
                   THEN insight[1].n + 1 ELSE 1
       IN  /\ n <= MaxRepeat
           /\ insight' = <<InsightCall(args, n)>>
    /\ UNCHANGED <<history, call, outcome, calls, storm_key, output, saved,
                   engines, threads>>

NextInsight == Calculate \/ GenerateInsight

SpecInsight == Init /\ [][NextInsight]_vars

C19_PressureOptional ==
    /\ (call # <<>> /\ call[1].nhc.current_pressure = <<>>) =>
           /\ outcome[1].kind = "return"
           /\ pressure_score(call[1].nhc) = F_0_5
    /\ (insight # <<>> /\ insight[1].args[1].current_pressure = <<>>) =>
           insight[1].result.kind = "return"

(***************************************************************************)
(* The rules of the insight generator as pure functions, on grids that     *)
(* hold every threshold of a rule and a value on either side of it.        *)
(***************************************************************************)
Regimes == {"RI_CANDIDATE", "PEAK_LIMITED", "COLLAPSE", "DECAY", "STABLE"}

GridTrend == {FNeg(F_0_4), FNeg(Lit(4, 100)), FNeg(F_0_03), FNeg(F_0_02),
              FZero, F_0_02, F_0_03, Lit(4, 100)}

GridModerate == {F_0_3, F_0_4, F_0_45, F_0_5, F_0_55, F_0_6, F_0_7}

InitConfidence ==
    /\ history = <<>>
    /\ outcome = <<>>
    /\ calls = 0
    /\ storm_key = ""
    /\ insight = <<>>
    /\ output = <<>>
    /\ saved = <<>>
    /\ engines = <<>>
    /\ threads = <<>>
    /\ call \in {<<[regime |-> r, dL_dt |-> d, L |-> L]>> :
                     r \in Regimes, d \in GridTrend, L \in GridModerate}

CalculateConfidence ==
    /\ calls = 0
    /\ calls' = 1
    /\ outcome' = <<_calculate_confidence(call[1])>>
    /\ UNCHANGED <<history, call, storm_key, insight, output, saved,
                   engines, threads>>

SpecConfidence == InitConfidence /\ [][CalculateConfidence]_vars

IsClearRegime(c) == c.regime \in {"RI_CANDIDATE", "PEAK_LIMITED", "COLLAPSE"}

IsStrongTrend(c) == FGt(FAbs(c.dL_dt), F_0_03)

IsModerate(c) == FLt(F_0_4, c.L) /\ FLt(c.L, F_0_6)

\* 0.6, plus 0.15, plus 0.10, minus 0.10, each where it applies
AdjustedConfidence(c) ==
    IF IsClearRegime(c)
    THEN IF IsStrongTrend(c)
         THEN IF IsModerate(c)
              THEN FSub(FAdd(FAdd(F_0_6, F_0_15), F_0_1), F_0_1)
              ELSE FAdd(FAdd(F_0_6, F_0_15), F_0_1)
         ELSE IF IsModerate(c)
              THEN FSub(FAdd(F_0_6, F_0_15), F_0_1)
              ELSE FAdd(F_0_6, F_0_15)
    ELSE IF IsStrongTrend(c)
         THEN IF IsModerate(c)
              THEN FSub(FAdd(F_0_6, F_0_1), F_0_1)
              ELSE FAdd(F_0_6, F_0_1)
         ELSE IF IsModerate(c) THEN FSub(F_0_6, F_0_1) ELSE F_0_6

\* C16: the confidence is 0.6, plus 0.15 for a clear regime, plus 0.10
\* for |dL_dt| > 0.03, minus 0.10 for 0.4 < L < 0.6, the three applied
\* independently, clamped to [0.4, 0.95]; it lies in [0.4, 0.95].
C16_Confidence ==
    outcome # <<>> =>
        /\ outcome[1] = FMax(F_0_4, FMin(F_0_95, AdjustedConfidence(call[1])))
        /\ FLe(F_0_4, outcome[1])
        /\ FLe(outcome[1], F_0_95)

\* all three adjustments at once
C16_Witness ==
    /\ outcome # <<>>
    /\ IsClearRegime(call[1])
    /\ IsStrongTrend(call[1])
    /\ IsModerate(call[1])
    /\ FGt(outcome[1], F_0_7)

GridPeak == {Lit(k, 20) : k \in 1..19}

InitPeak ==
    /\ history = <<>>
    /\ outcome = <<>>
    /\ calls = 0
    /\ storm_key = ""
    /\ insight = <<>>
    /\ output = <<>>
    /\ saved = <<>>
    /\ engines = <<>>
    /\ threads = <<>>
    /\ call \in {<<[regime |-> r, I |-> I]>> : r \in Regimes, I \in GridPeak}

EstimateTimeToPeak ==
    /\ calls = 0
    /\ calls' = 1
    /\ outcome' = <<_estimate_time_to_peak(call[1], Favorable)>>
    /\ UNCHANGED <<history, call, storm_key, insight, output, saved,
                   engines, threads>>

SpecPeak == InitPeak /\ [][EstimateTimeToPeak]_vars

\* C18: the time to peak is the first match of: PEAK_LIMITED gives
\* "within 12-24 hours", I < 0.30 gives "at or near peak now",
\* RI_CANDIDATE gives "24-48 hours (if RI occurs)", else none.
C18_TimeToPeakFirstMatch ==
    outcome # <<>> =>
        outcome[1] =
            IF call[1].regime = "PEAK_LIMITED" THEN <<"within 12-24 hours">>
            ELSE IF FLt(call[1].I, F_0_3) THEN <<"at or near peak now">>
            ELSE IF call[1].regime = "RI_CANDIDATE"
            THEN <<"24-48 hours (if RI occurs)">>
            ELSE <<>>

\* a PEAK_LIMITED state with I < 0.30 got the PEAK_LIMITED phrase
C18_Witness ==
    /\ outcome = << <<"within 12-24 hours">> >>
    /\ call[1].regime = "PEAK_LIMITED"
    /\ FLt(call[1].I, F_0_3)

GridKnots == {45, 90, 140}

InitComparative ==
    /\ history = <<>>
    /\ outcome = <<>>
    /\ calls = 0
    /\ storm_key = ""
    /\ insight = <<>>
    /\ output = <<>>
    /\ saved = <<>>
    /\ engines = <<>>
    /\ threads = <<>>
    /\ call \in {<<[nhc |-> NHCAdvisory(Observation("Ian", HURRICANE, kt,
                                                    <<FromInt(960)>>),
                                        FirstTime),
                    constraints |-> [I |-> I, S |-> S, dS_dt |-> dS,
                                     regime |-> r, gradient_hazard |-> hz],
                    env |-> Favorable]>> :
                     kt \in GridKnots, I \in {F_0_5, F_0_6, F_0_7},
                     S \in {F_0_3, F_0_4, F_0_8, F_0_9},
                     dS \in {FZero, F_0_01}, r \in Regimes, hz \in BOOLEAN}

GenerateComparativeInsight ==
    /\ calls = 0
    /\ calls' = 1
    /\ outcome' = <<_generate_comparative_insight(call[1].nhc,
                                                  call[1].constraints,
                                                  call[1].env)>>
    /\ UNCHANGED <<history, call, storm_key, insight, output, saved,
                   engines, threads>>

SpecComparative == InitComparative /\ [][GenerateComparativeInsight]_vars

\* the kind of the remark that a piece opens: 1 ceiling proximity,
\* 2 structure vs intensity, 3 regime, 4 gradient hazard, 5 the fallback
\* sentence; 0 for a piece that opens no remark
RemarkKind(piece) ==
    IF piece = "Storm at " THEN 1
    ELSE IF piece \in {"Structural coherence weak despite current intensity - may indicate instability.",
                       "Structure strengthening - supports continued intensification."}
    THEN 2
    ELSE IF piece \in {"All constraints aligned for rapid intensification within 24 hours.",
                       "Approaching thermodynamic limits - peak intensity likely within 12-24 hours.",
                       "Structural collapse underway - expect abrupt weakening."}
    THEN 3
    ELSE IF piece = "Admissibility declining - storm moving into less favorable constraint space."
    THEN 4
    ELSE IF piece = "Constraint analysis aligns with current NHC assessment."
    THEN 5
    ELSE 0

\* where the remarks of a text open, in the order of the text
RemarkStarts(text) ==
    SelectSeq([i \in 1..Len(text) |-> i], LAMBDA i : RemarkKind(text[i]) > 0)

RemarkKinds(text) ==
    [j \in 1..Len(RemarkStarts(text)) |-> RemarkKind(text[RemarkStarts(text)[j]])]

HasKind(text, k) == \E j \in 1..Len(RemarkKinds(text)) : RemarkKinds(text)[j] = k

CeilingTrigger(a) ==
    \/ FGt(ceiling_pct(a.nhc, a.env), FromInt(85))
    \/ FLt(ceiling_pct(a.nhc, a.env), FromInt(60)) /\ FGt(a.constraints.I, F_0_6)

StructureTrigger(a) ==
    \/ FLt(a.constraints.S, F_0_4) /\ FGt(a.nhc.current_intensity, FromInt(80))
    \/ FGt(a.constraints.S, F_0_8) /\ FGt(a.constraints.dS_dt, FZero)

RegimeTrigger(a) ==
    a.constraints.regime \in {"RI_CANDIDATE", "PEAK_LIMITED", "COLLAPSE"}

HazardTrigger(a) == a.constraints.gradient_hazard

\* C17: the comparative insight is the triggered remarks joined by single
\* spaces in the order ceiling, structure, regime, hazard; at most one
\* remark of each kind; the fallback sentence iff none of the four
\* triggers, and then alone.
C17_ComparativeOrder ==
    outcome # <<>> =>
        LET text  == outcome[1]
            kinds == RemarkKinds(text)
            start == RemarkStarts(text)
        IN  /\ Len(start) >= 1
            /\ start[1] = 1
            /\ \A j \in 1..(Len(kinds) - 1) : kinds[j] < kinds[j + 1]
            /\ \A j \in 2..Len(start) : text[start[j] - 1] = " "
            /\ Len(SelectSeq(text, LAMBDA piece : piece = " ")) = Len(start) - 1
            /\ HasKind(text, 1) <=> CeilingTrigger(call[1])
            /\ HasKind(text, 2) <=> StructureTrigger(call[1])
            /\ HasKind(text, 3) <=> RegimeTrigger(call[1])
            /\ HasKind(text, 4) <=> HazardTrigger(call[1])
            /\ HasKind(text, 5) <=>
                   ~(CeilingTrigger(call[1]) \/ StructureTrigger(call[1])
                     \/ RegimeTrigger(call[1]) \/ HazardTrigger(call[1]))
            /\ HasKind(text, 5) => Len(text) = 1

\* all four remarks in one insight
C17_Witness ==
    /\ outcome # <<>>
    /\ RemarkKinds(outcome[1]) = <<1, 2, 3, 4>>
    /\ CeilingTrigger(call[1]) /\ StructureTrigger(call[1])
    /\ RegimeTrigger(call[1]) /\ HazardTrigger(call[1])

(***************************************************************************)
(* HurricaneConstraintSystem: one system, with its one engine, processes   *)
(* storms one after the other.  The inputs of a run are the storm id       *)
(* asked for, the answer of the NHC server, and the clock: the hours       *)
(* passed since the last advisory, and the month.                          *)
(***************************************************************************)
IanData ==
    [id |-> "al092022", name |-> "Ian", classification |-> HURRICANE,
     intensity |-> 100, pressure |-> <<960>>,
     latitude |-> Lit(225, 10), longitude |-> FromInt(0 - 83),
     movement |-> [degrees |-> 315, speed |-> 10], advisoryNumber |-> 15]

\* no pressure in the feed, no direction of movement
NicoleData ==
    [id |-> "al172022", name |-> "Nicole", classification |-> TROPICAL_STORM,
     intensity |-> 45, pressure |-> <<>>,
     latitude |-> FromInt(27), longitude |-> FromInt(0 - 75),
     movement |-> [degrees |-> 0, speed |-> 8], advisoryNumber |-> 3]

Responses ==
    {[kind |-> "error", activeStorms |-> <<>>],
     [kind |-> "ok", activeStorms |-> <<>>],
     [kind |-> "ok", activeStorms |-> <<IanData, NicoleData>>]}

StormIds == {<<>>, <<"al092022">>, <<"al172022">>, <<"al012022">>}

Months == {3, 5, 9}

Ticks == {0, 6}

\* the dict that process_storm returns
Output(nhc, env, constraints, diagnostic) ==
    [storm_id |-> nhc.storm_id, storm_name |-> nhc.storm_name,
     nhc_advisory |-> nhc, environmental |-> env,
     constraints |-> constraints, diagnostic_insight |-> diagnostic]

\* steps 4 and 5, on the advisory, environment and state of step 3: an
\* exception of generate_insight leaves process_storm before the output is
\* compiled and saved
InsightAndOutput(fetch, now) ==
    /\ insight' = <<Insight(call'[1].nhc, outcome'[1].state[1], call'[1].env)>>
    /\ IF insight'[1].result.kind = "raise"
       THEN /\ output' = <<[fetch |-> fetch, kind |-> "raise",
                            exc |-> insight'[1].result.exc, value |-> <<>>]>>
            /\ UNCHANGED saved
       ELSE /\ output' = <<[fetch |-> fetch, kind |-> "return", exc |-> "",
                            value |-> <<Output(call'[1].nhc, call'[1].env,
                                               outcome'[1].state[1],
                                               insight'[1].result.value[1])>>]>>
            /\ saved' = Append(saved, <<call'[1].nhc.storm_id, now>>)

\* steps 2 to 5 on a fetched advisory
ProcessAdvisory(nhc, fetch, now, month) ==
    /\ calculate_constraints(
           nhc, fetch_environmental_data(nhc.latitude, nhc.longitude, month))
    /\ InsightAndOutput(fetch, now)

\* output keeps, next to the result, how the fetch went
process_storm(storm_id, response, now, month) ==
    IF fetch_latest_advisory(storm_id, response, now) = <<>>
    THEN /\ output' = <<[fetch |-> response.kind, kind |-> "return",
                         exc |-> "", value |-> <<>>]>>
         /\ UNCHANGED <<history, call, outcome, calls, storm_key, insight, saved>>
    ELSE ProcessAdvisory(fetch_latest_advisory(storm_id, response, now)[1],
                         response.kind, now, month)

ProcessStorm ==
    /\ UNCHANGED <<engines, threads>>
    /\ calls < MaxCalls
    /\ \E storm_id \in StormIds, response \in Responses,
          dt \in Ticks, month \in Months :
           process_storm(storm_id, response, NextTime(dt), month)

SpecSystem == Init /\ [][ProcessStorm]_vars

\* C13: the previous state that a call smooths and differentiates against
\* (the entry before the new one) has the storm name of the advisory.
C13_PreviousOfSameStorm ==
    (Len(history) >= 2 /\ history[Len(history)] = outcome[1].state[1]) =>
        history[Len(history) - 1].storm_name = call[1].nhc.storm_name

\* C20: after a failed fetch process_storm fails, and the history holds no
\* state of the placeholder advisory.
C20_FetchFailureSurfaced ==
    /\ (output # <<>> /\ output[1].fetch = "error") => output[1].kind = "raise"
    /\ \A k \in 1..Len(history) : history[k].storm_name # "TEST_STORM"

(***************************************************************************)
(* _classification_score as a pure function: the label is drawn from the   *)
(* labels below, each as written, in upper case and in lower case, and one *)
(* step applies the function.                                              *)
(***************************************************************************)
LabelsAsWritten ==
    { <<"C","a","t","e","g","o","r","y"," ","5">>,
      <<"C","a","t"," ","4">>,
      <<"C","a","t","e","g","o","r","y"," ","4"," ","M","a","j","o","r",
        " ","H","u","r","r","i","c","a","n","e">>,
      <<"M","a","j","o","r"," ","H","u","r","r","i","c","a","n","e">>,
      <<"C","a","t","e","g","o","r","y"," ","3">>,
      <<"C","a","t"," ","2">>,
      <<"C","a","t","e","g","o","r","y"," ","1">>,
      <<"H","u","r","r","i","c","a","n","e">>,
      <<"T","r","o","p","i","c","a","l"," ","S","t","o","r","m">>,
      <<"T","S">>,
      <<"T","r","o","p","i","c","a","l"," ","D","e","p","r","e","s","s",
        "i","o","n">>,
      <<"T","D">>,
      <<"P","o","s","t","-","T","r","o","p","i","c","a","l">>,
      <<"P","o","s","t","-","T","r","o","p","i","c","a","l"," ","C","y",
        "c","l","o","n","e">>,
      <<"R","e","m","n","a","n","t"," ","L","o","w">>,
      <<"R","e","m","n","a","n","t","s"," ","o","f"," ","I","a","n">>,
      <<"P","o","s","t","-","T","r","o","p","i","c","a","l"," ","R","e",
        "m","n","a","n","t","s">>,
      <<"S","u","b","t","r","o","p","i","c","a","l">>,
      <<"E","x","t","r","a","t","r","o","p","i","c","a","l">>,
      <<"P","o","t","e","n","t","i","a","l"," ","T","r","o","p","i","c",
        "a","l"," ","C","y","c","l","o","n","e">>,
      <<"D","i","s","t","u","r","b","a","n","c","e">>,
      <<"O","u","t","s","i","d","e">> }

LowerChar(c) ==
    IF \E k \in 1..Len(UpperCase) : UpperCase[k] = c
    THEN LowerCase[CHOOSE k \in 1..Len(UpperCase) : UpperCase[k] = c]
    ELSE c

lower(s) == [k \in 1..Len(s) |-> LowerChar(s[k])]

Labels == LabelsAsWritten \cup {upper(s) : s \in LabelsAsWritten}
                          \cup {lower(s) : s \in LabelsAsWritten}

InitClassification ==
    /\ history = <<>>
    /\ outcome = <<>>
    /\ calls = 0
    /\ storm_key = ""
    /\ insight = <<>>
    /\ output = <<>>
    /\ saved = <<>>
    /\ engines = <<>>
    /\ threads = <<>>
    /\ call \in {<<[classification |-> s]>> : s \in Labels}

ClassificationScore ==
    /\ calls = 0
    /\ calls' = 1
    /\ outcome' = <<_classification_score(call[1].classification)>>
    /\ UNCHANGED <<history, call, storm_key, insight, output, saved,
                   engines, threads>>

SpecClassification == InitClassification /\ [][ClassificationScore]_vars

\* the wording of a label, whatever its case
Worded(label, word) == Contains(word, upper(label))

\* a label of a former tropical cyclone: post-tropical or remnant, and no
\* category, hurricane, storm or depression wording
FormerCyclone(label) ==
    /\ \/ Worded(label, POST_TROPICAL)
       \/ Worded(label, <<"R","E","M","N","A","N","T">>)
    /\ ~Worded(label, <<"C","A","T">>)
    /\ ~Worded(label, <<"M","A","J","O","R">>)
    /\ ~Worded(label, HURRICANE)
    /\ ~Worded(label, <<"S","T","O","R","M">>)
    /\ ~Worded(label, <<"D","E","P","R","E","S","S","I","O","N">>)

\* C21: the score is a case-insensitive lookup, the most specific match
\* first; in particular a label worded post-tropical or remnant, with no
\* category, hurricane, storm or depression wording, scores 0.15.
C21_ClassificationScore ==
    outcome # <<>> =>
        LET label == call[1].classification
        IN  /\ outcome[1] = _classification_score(upper(label))
            /\ Worded(label, CATEGORY_5) => outcome[1] = F_0_95
            /\ FormerCyclone(label) => outcome[1] = F_0_15

(***************************************************************************)
(* Several engines, called from several threads.  calculate_constraints    *)
(* takes no lock, so between the read of history[-1] and the append the    *)
(* other thread may run.  A thread is idle (the empty sequence) or holds   *)
(* the call it is in: the engine, the arguments, the previous state it     *)
(* read and the number of appends the engine had seen by then.  Next to    *)
(* its history an engine keeps the log of the calls that returned, in the  *)
(* order of their appends.  The n-th call made takes the n-th point of a   *)
(* track.                                                                  *)
(***************************************************************************)
EngineIds == {1, 2}

ThreadIds == {1, 2}

MaxThreadCalls == 3

ThreadPoint(n) == ValidInputList[<<1, 3, 6>>[((n - 1) % 3) + 1]]

\* ConstraintEngine(): every instance gets a list of its own
ConstraintEngine == [history |-> <<>>, log |-> <<>>]

InitThreads ==
    /\ history = <<>>
    /\ call = <<>>
    /\ outcome = <<>>
    /\ calls = 0
    /\ storm_key = ""
    /\ insight = <<>>
    /\ output = <<>>
    /\ saved = <<>>
    /\ engines = [k \in EngineIds |-> ConstraintEngine]
    /\ threads = [t \in ThreadIds |-> <<>>]

\* "Get previous state for rate calculations"
ReadPrevious(h) == IF h # <<>> THEN <<h[Len(h)]>> ELSE <<>>

\* the thread enters calculate_constraints on engine k and reads prev
Begin(t, k, nhc, env) ==
    /\ threads[t] = <<>>
    /\ threads' = [threads EXCEPT ![t] =
                      <<[engine |-> k, nhc |-> nhc, env |-> env,
                         prev |-> ReadPrevious(engines[k].history),
                         seen |-> Len(engines[k].log)]>>]
    /\ calls' = calls + 1
    /\ UNCHANGED <<history, call, outcome, storm_key, insight, output, saved,
                   engines>>

\* variant: the previous state read again when the state is computed
LocalPrev_read_again(th, h) == ReadPrevious(h)

\* prev is a local variable: steps 1 to 5 use what was read on entry
LocalPrev(th, h) == th.prev

\* what the call of thread record th returns, the engine's history being h
Returned(th, h) ==
    [thread_call |-> th, state |-> NewState(LocalPrev(th, h), th.nhc, th.env)]

\* variant: one list for all the instances, as a class attribute would be
Store_shared(engs, k, entry) ==
    [j \in DOMAIN engs |->
        [history |-> StoreInHistory(engs[k].history, entry.state),
         log |-> IF j = k THEN Append(engs[j].log, entry) ELSE engs[j].log]]

\* self.history.append(state), and the pop, on the engine's own list
Store(engs, k, entry) ==
    [engs EXCEPT ![k] = [history |-> StoreInHistory(@.history, entry.state),
                         log |-> Append(@.log, entry)]]

\* the thread computes the state, stores it and returns
Finish(t) ==
    /\ threads[t] # <<>>
    /\ engines' = Store(engines, threads[t][1].engine,
                        Returned(threads[t][1],
                                 engines[threads[t][1].engine].history))
    /\ threads' = [threads EXCEPT ![t] = <<>>]
    /\ UNCHANGED <<history, call, outcome, calls, storm_key, insight, output,
                   saved>>

BeginCall ==
    /\ calls < MaxThreadCalls
    /\ \E t \in ThreadIds, k \in EngineIds :
           Begin(t, k, NHCAdvisory(ThreadPoint(calls + 1)[1],
                                   PointTime(calls + 1)),
                 ThreadPoint(calls + 1)[2])

FinishCall == \E t \in ThreadIds : Finish(t)

NextThreads == BeginCall \/ FinishCall

SpecThreads == InitThreads /\ [][NextThreads]_vars

\* the calls on the engine did not overlap: each read the history after
\* the append of the one before
Serial(eng) == \A i \in 1..Len(eng.log) : eng.log[i].thread_call.seen = i - 1

\* the history of a fresh engine after the calls of the log, one after the
\* other
RECURSIVE RunAlone(_, _)
RunAlone(h, log) ==
    IF log = <<>> THEN h
    ELSE RunAlone(StoreInHistory(h, NewState(ReadPrevious(h),
                                             log[1].thread_call.nhc,
                                             log[1].thread_call.env)),
                  Tail(log))

\* C22: a call on one engine leaves the history of every other engine
\* unchanged, however the calls on the two engines interleave, and the
\* states an engine returned and holds are those of its own calls run
\* alone on a fresh engine.
C22_EnginesIndependent ==
    [][\A k \in EngineIds :
          /\ engines'[k].log = engines[k].log
                 => engines'[k].history = engines[k].history
          /\ Serial(engines'[k]) =>
                 /\ engines'[k].history = RunAlone(<<>>, engines'[k].log)
                 /\ \A i \in 1..Len(engines'[k].log) :
                        engines'[k].log[i].state = engines'[k].history[i]]_vars

\* a call on engine 1 began and returned while a call on engine 2, begun
\* before it, is still in progress; engine 1 has a state, engine 2 none
C22_Witness ==
    \E t \in ThreadIds :
        /\ threads[t] # <<>>
        /\ threads[t][1].engine = 2
        /\ engines[2].history = <<>>
        /\ Len(engines[1].history) = 1
        /\ engines[1].history[1].timestamp > threads[t][1].nhc.advisory_time

\* the last two calls logged by the engine both read history[-1] before
\* either of them appended
ReadBeforeEitherAppend(eng) ==
    /\ Len(eng.log) >= 2
    /\ eng.log[Len(eng.log)].thread_call.seen <= Len(eng.log) - 2

\* and no third call appended between the two reads
ReadTheSameHistory(eng) ==
    /\ ReadBeforeEitherAppend(eng)
    /\ eng.log[Len(eng.log)].thread_call.seen
           = eng.log[Len(eng.log) - 1].thread_call.seen

\* the last two calls logged were computed from one previous state, which
\* is not the entry before the state appended second
SamePreviousState(eng) ==
    LET n      == Len(eng.log)
        first  == eng.log[n - 1]
        second == eng.log[n]
        h      == eng.history
    IN  /\ first.thread_call.prev = second.thread_call.prev
        /\ h[Len(h) - 1] = first.state
        /\ h[Len(h)] = second.state
        /\ first.state = NewState(first.thread_call.prev,
                                  first.thread_call.nhc, first.thread_call.env)
        /\ second.state = NewState(second.thread_call.prev,
                                   second.thread_call.nhc,
                                   second.thread_call.env)
        /\ second.thread_call.prev # <<first.state>>

\* C25, as stated: without a lock two computations on one engine can
\* interleave; if both read history[-1] before either appends, both are
\* computed from the same previous state, and the state appended second
\* was not computed from the entry before it in the history.
C25_BothReadBeforeAppend ==
    \A k \in EngineIds :
        ReadBeforeEitherAppend(engines[k]) => SamePreviousState(engines[k])

\* C25, amended: the same, for two computations that both read history[-1]
\* before either appends with no append of a third computation between
\* the two reads.
C25_Unserialized ==
    \A k \in EngineIds :
        ReadTheSameHistory(engines[k]) => SamePreviousState(engines[k])

\* engine 1 holds three states: the second and the third were both
\* computed from the first, and the third is not what the second would
\* have given
C25_Witness ==
    /\ Len(engines[1].history) = 3
    /\ ReadTheSameHistory(engines[1])
    /\ engines[1].log[2].thread_call.prev = <<engines[1].history[1]>>
    /\ engines[1].log[3].thread_call.prev = <<engines[1].history[1]>>
    /\ engines[1].history[3]
           # NewState(<<engines[1].history[2]>>,
                      engines[1].log[3].thread_call.nhc,
                      engines[1].log[3].thread_call.env)

(***************************************************************************)
(* End to end: the first points of the track of Ian, six, twelve or        *)
(* eighteen hours apart, each in one of two environments.                  *)
(***************************************************************************)
MAJOR_HURRICANE == <<"M","A","J","O","R"," ","H","U","R","R","I","C","A","N","E">>

IanTrack ==
    << Observation("Ian", TROPICAL_STORM, 45, <<FromInt(998)>>),
       Observation("Ian", HURRICANE, 75, <<FromInt(986)>>),
       Observation("Ian", MAJOR_HURRICANE, 105, <<FromInt(954)>>) >>

TrackElapsed == {6, 12, 18}

CalculateTrack ==
    /\ calls < MaxCalls
    /\ \E i \in 1..Len(IanTrack), env \in {Favorable, Hostile},
          dt \in TrackElapsed :
           calculate_constraints(NHCAdvisory(IanTrack[i], NextTime(dt)), env)
    /\ UNCHANGED <<insight, output, saved, engines, threads>>

SpecEndToEnd == Init /\ [][CalculateTrack]_vars

\* within 1e-6
Near(x, y) == FLe(FAbs(FSub(x, y)), Lit(1, 1000000))

\* the first call is that of the first point of the track, in the
\* favorable environment (potential intensity 150, shear 10, SST 29,
\* latitude 18)
FirstPointFavorable(nhc, env) ==
    /\ nhc = NHCAdvisory(IanTrack[1], FirstTime)
    /\ env = Favorable

\* C23: the first call on a fresh engine with 45 kt, TROPICAL STORM,
\* 998 mb, potential intensity 150, shear 10, SST 29, latitude 18 returns
\* I = 0.70, R = 0.5*(1-10/35) + 0.3*(5/6) + 0.2*(1-4/25),
\* S = 0.4*0.55 + 0.3*(1-|998-985.75|/30) + 0.3*(1-10/40) = 0.6225, all
\* four rates 0 and regime STABLE or RI_CANDIDATE.
C23_FirstCallEndToEnd ==
    (calls = 1 /\ FirstPointFavorable(call[1].nhc, call[1].env)) =>
        LET st == outcome[1].state[1]
        IN  /\ outcome[1].kind = "return"
            /\ history = <<st>>
            /\ st.I = F_0_7
            /\ st.R = FAdd(FAdd(FMul(F_0_5,
                                     FSub(F_1, FDiv(FromInt(10), FromInt(35)))),
                                FMul(F_0_3, FDiv(FromInt(5), FromInt(6)))),
                           FMul(F_0_2,
                                FSub(F_1, FDiv(FromInt(4), FromInt(25)))))
            /\ st.S = FAdd(FAdd(FMul(F_0_4, F_0_55),
                                FMul(F_0_3,
                                     FSub(F_1,
                                          FDiv(FAbs(FSub(FromInt(998),
                                                         Lit(98575, 100))),
                                               FromInt(30))))),
                           FMul(F_0_3,
                                FSub(F_1, FDiv(FromInt(10), FromInt(40)))))
            /\ Near(st.S, Lit(6225, 10000))
            /\ AllRatesZero(st)
            /\ st.regime \in {"STABLE", "RI_CANDIDATE"}

\* that call has returned: the regime is STABLE, and S was not clamped
C23_Witness ==
    /\ calls = 1
    /\ FirstPointFavorable(call[1].nhc, call[1].env)
    /\ Len(history) = 1
    /\ history[1].regime = "STABLE"
    /\ FLt(F_0_05, history[1].S)
    /\ FLt(history[1].S, F_0_95)

\* C24: after that first call, a call 12 hours later with 75 kt, HURRICANE
\* and the same environment returns I = 0.7*(1-75/150) + 0.3*0.70 = 0.56
\* and dI_dt = (0.56 - 0.70)/12, which is negative.
C24_SecondCallEndToEnd ==
    (/\ calls = 2
     /\ Len(history) = 2
     /\ history[1] = NewState(<<>>, NHCAdvisory(IanTrack[1], FirstTime),
                              Favorable)
     /\ call[1].nhc = NHCAdvisory(IanTrack[2], FirstTime + 12)
     /\ call[1].env = Favorable) =>
        LET st == outcome[1].state[1]
        IN  /\ history[2] = st
            /\ st.I = FAdd(FMul(F_0_7,
                                FSub(F_1, FDiv(FromInt(75), FromInt(150)))),
                           FMul(F_0_3, F_0_7))
            /\ Near(st.I, Lit(56, 100))
            /\ st.dI_dt = FDiv(FSub(st.I, F_0_7), FromInt(12))
            /\ Near(st.dI_dt, FDiv(FSub(Lit(56, 100), F_0_7), FromInt(12)))
            /\ FLt(st.dI_dt, FZero)

\* the second call has returned, twelve hours after the first
C24_Witness ==
    /\ calls = 2
    /\ Len(history) = 2
    /\ history[1] = NewState(<<>>, NHCAdvisory(IanTrack[1], FirstTime),
                             Favorable)
    /\ call[1].nhc = NHCAdvisory(IanTrack[2], FirstTime + 12)
    /\ call[1].env = Favorable
    /\ history[2].timestamp - history[1].timestamp = 12
    /\ FLt(history[2].I, history[1].I)

(***************************************************************************)
(* fetch_environmental_data as a pure function of the position and of the  *)
(* month of the clock: the latitudes hold every threshold of the           *)
(* estimates, a value on either side of it and values outside the globe.   *)
(***************************************************************************)
GridLat == {FromInt(0 - 90), FromInt(0 - 50), FromInt(0), FromInt(10),
            Lit(149, 10), FromInt(15), FromInt(18), FromInt(20), Lit(249, 10),
            FromInt(25), Lit(265, 10), FromInt(30), FromInt(32), FromInt(35),
            FromInt(40), FromInt(60), FromInt(90), FromInt(200)}

GridLon == {FromInt(0 - 82), FromInt(0)}

GridMonth == {2, 5, 7, 9}

InitEnvironment ==
    /\ history = <<>>
    /\ outcome = <<>>
    /\ calls = 0
    /\ storm_key = ""
    /\ insight = <<>>
    /\ output = <<>>
    /\ saved = <<>>
    /\ engines = <<>>
    /\ threads = <<>>
    /\ call \in {<<[lat |-> lat, lon |-> lon, month |-> month]>> :
                     lat \in GridLat, lon \in GridLon, month \in GridMonth}

FetchEnvironmentalData ==
    /\ calls = 0
    /\ calls' = 1
    /\ outcome' = <<fetch_environmental_data(call[1].lat, call[1].lon,
                                             call[1].month)>>
    /\ UNCHANGED <<history, call, storm_key, insight, output, saved,
                   engines, threads>>

SpecEnvironment == InitEnvironment /\ [][FetchEnvironmentalData]_vars

\* C26: for every latitude and longitude the estimated environment has
\* potential_intensity in [70, 175], wind_shear in [0, 50] and sst in
\* [24, 31]; the potential intensity, the divisor of the engine and of the
\* insight, is strictly positive.
C26_EnvironmentInRange ==
    outcome # <<>> =>
        /\ Between(FromInt(70), outcome[1].potential_intensity, FromInt(175))
        /\ Between(FZero, outcome[1].wind_shear, FromInt(50))
        /\ Between(FromInt(24), outcome[1].sst, FromInt(31))
        /\ FGt(outcome[1].potential_intensity, FZero)
        /\ outcome[1].latitude = call[1].lat

\* north of 35 degrees in the season: the sea is at the threshold of 26 C,
\* and the latitude factor would take 75 kt to 45 kt but for the floor
C26_Witness ==
    /\ outcome # <<>>
    /\ FGe(call[1].lat, FromInt(35))
    /\ outcome[1].sst = FromInt(26)
    /\ outcome[1].potential_intensity = FromInt(70)
    /\ FLt(FMul(FromInt(75), pi_lat_factor(call[1].lat)), FromInt(70))

(***************************************************************************)
(* More properties of calculate_constraints on valid inputs (Spec).        *)
(***************************************************************************)
\* the latest call found no previous state, or one that is not older than
\* its advisory
NoElapsedTime ==
    /\ outcome # <<>>
    /\ outcome[1].kind = "return"
    /\ \/ Len(history) = 1
       \/ /\ Len(history) >= 2
          /\ call[1].nhc.advisory_time
                 <= history[Len(history) - 1].timestamp

\* C27: a state computed with no previous state, or with zero or negative
\* elapsed time since the previous state, has gradient_hazard false and a
\* regime among PEAK_LIMITED, COLLAPSE and STABLE; the first state of a
\* fresh engine is never RI_CANDIDATE.
C27_NoTrendWithoutTime ==
    NoElapsedTime =>
        /\ outcome[1].state[1].gradient_hazard = FALSE
        /\ outcome[1].state[1].regime \in {"PEAK_LIMITED", "COLLAPSE", "STABLE"}
        /\ history[Len(history)] = outcome[1].state[1]

\* a state computed from an advisory as old as the previous state: the
\* three indices meet the thresholds of RI_CANDIDATE and S has risen, yet
\* the regime is STABLE
C27_Witness ==
    /\ NoElapsedTime
    /\ Len(history) = 2
    /\ FGt(history[2].I, F_0_65)
    /\ FGt(history[2].R, F_0_7)
    /\ FGt(history[2].S, F_0_6)
    /\ FGt(history[2].S, history[1].S)
    /\ history[2].regime = "STABLE"

\* C28: in every state produced by calculate_constraints the regime
\* RI_CANDIDATE comes with the risk level LOW or MODERATE, never HIGH or
\* CRITICAL: its L is above 0.25 and its S is at least 0.40.
C28_RICandidateNotAtRisk ==
    /\ \A k \in 1..Len(history) :
           history[k].regime = "RI_CANDIDATE" =>
               /\ history[k].refusal_risk \in {"LOW", "MODERATE"}
               /\ FGt(history[k].L, F_0_25)
               /\ FGe(history[k].S, F_0_4)
    /\ outcome # <<>> => history[Len(history)] = outcome[1].state[1]

\* an RI_CANDIDATE whose L is below 0.40: the risk level is MODERATE
C28_Witness ==
    /\ outcome # <<>>
    /\ outcome[1].state[1].regime = "RI_CANDIDATE"
    /\ outcome[1].state[1].refusal_risk = "MODERATE"
    /\ FLt(outcome[1].state[1].L, F_0_4)
    /\ history[Len(history)] = outcome[1].state[1]

(***************************************************************************)
(* Calls that fail between calls that return: two valid inputs and one     *)
(* with potential intensity 0, at the time of the call before or six       *)
(* hours later.                                                            *)
(***************************************************************************)
MaxFailureCalls == 3

FailureInputs ==
    { ValidInputList[1], ValidInputList[3],
      <<Observation("Ian", TROPICAL_STORM, 45, <<FromInt(998)>>),
        EnvironmentalData(29, 10, 0, 18)>> }

CalculateOrFail ==
    /\ calls < MaxFailureCalls
    /\ \E inp \in FailureInputs, dt \in {0, 6} :
           calculate_constraints(NHCAdvisory(inp[1], NextTime(dt)), inp[2])
    /\ UNCHANGED <<insight, output, saved, engines, threads>>

SpecFailure == Init /\ [][CalculateOrFail]_vars

\* C29: a call that raises leaves the history exactly as it was, nothing
\* appended and nothing evicted; a call that returns appends its state,
\* smoothed against the last entry of the history it found, which is that
\* of the last call that returned.
C29_FailureLeavesHistory ==
    [][IF outcome'[1].kind = "raise"
       THEN history' = history
       ELSE /\ history' = Append(history, outcome'[1].state[1])
            /\ history # <<>> =>
                   outcome'[1].state[1].I
                       = FAdd(FMul(F_0_7, I_raw(call'[1].nhc, call'[1].env)),
                              FMul(F_0_3, history[Len(history)].I))]_vars

\* a call returned, the next one raised, the third returned: its state is
\* twelve hours younger than the one before it in the history and smoothed
\* against it
C29_Witness ==
    /\ calls = 3
    /\ Len(history) = 2
    /\ outcome[1].kind = "return"
    /\ history[2].timestamp - history[1].timestamp = 12
    /\ history[2].I = FAdd(FMul(F_0_7, I_raw(call[1].nhc, call[1].env)),
                           FMul(F_0_3, history[1].I))
    /\ history[2].I # I_raw(call[1].nhc, call[1].env)

(***************************************************************************)
(* One more property of _calculate_confidence (SpecConfidence).            *)
(***************************************************************************)
\* C30: the final clamp of _calculate_confidence never changes the value:
\* the sum before it lies in [0.5, 0.85], so the confidence is one of 0.5,
\* 0.6, 0.65, 0.7, 0.75 and 0.85, and never 0.4 or 0.95.
C30_ClampIdle ==
    outcome # <<>> =>
        /\ outcome[1] = AdjustedConfidence(call[1])
        /\ Between(F_0_5, AdjustedConfidence(call[1]), F_0_85)
        /\ outcome[1] \in {F_0_5, F_0_6, F_0_65, F_0_7, F_0_75, F_0_85}
        /\ outcome[1] # F_0_4
        /\ outcome[1] # F_0_95

\* the largest sum: a clear regime and a strong trend, L not moderate
C30_Witness ==
    /\ outcome # <<>>
    /\ IsClearRegime(call[1])
    /\ IsStrongTrend(call[1])
    /\ ~IsModerate(call[1])
    /\ outcome[1] = F_0_85

=============================================================================
